---------------------------- MODULE Spec2Model ----------------------------
(***************************************************************************)
(* A model of the oa_ontology fusion pipeline:                             *)
(*   - UMLAPIXReferencer (src/oa_ontology/crossref_api_uml.py): the method *)
(*     merge, the per-class fusion and process_all_classes;                *)
(*   - build_enhanced_domain_ontology                                      *)
(*     (src/oa_ontology/enhanced_domain_ontology.py): the graph builder    *)
(*     with its relationship inference.                                    *)
(* Python strings are sequences of one-character strings, so that the      *)
(* regular expressions and substring tests of the code are computed.       *)
(***************************************************************************)
EXTENDS Naturals, Sequences, FiniteSets, TLC

(***************************************************************************)
(* Bounds of the model.                                                    *)
(***************************************************************************)
MaxApiMethods == 2
MaxUmlMethods == 2
MaxSchemaFiles == 2
MaxGetters == 2
MaxRels == 2
MaxInferMethods == 2
MaxDeclared == 2
MaxDomainFiles == 3
MaxTokens == 3
MaxDepth == 17

(***************************************************************************)
(* Characters and the string operations the code uses.                     *)
(***************************************************************************)
Upper == {"A","B","C","D","E","F","G","H","I","J","K","L","M","N","O","P","Q",
          "R","S","T","U","V","W","X","Y","Z"}
Lower == {"a","b","c","d","e","f","g","h","i","j","k","l","m","n","o","p","q",
          "r","s","t","u","v","w","x","y","z"}
Digit == {"0","1","2","3","4","5","6","7","8","9"}
\* \w of Python's re: letters, digits and the underscore
WordChar == Upper \cup Lower \cup Digit \cup {"_"}
\* \s of Python's re, as far as the model's texts go
SpaceChar == {" ", "\t", "\n"}

\* The characters in code-point order (str comparison of sorted()).
CodePoints == <<"\t","\n"," ","&","(",")","*",",",".",";","<",">",
                "0","1","2","3","4","5","6","7","8","9",
                "A","B","C","D","E","F","G","H","I","J","K","L","M","N","O","P","Q",
                "R","S","T","U","V","W","X","Y","Z","_",
                "a","b","c","d","e","f","g","h","i","j","k","l","m","n","o","p","q",
                "r","s","t","u","v","w","x","y","z","|">>
Ord(c) == CHOOSE i \in 1..Len(CodePoints) : CodePoints[i] = c

\* a < b for Python strings
RECURSIVE StrLess(_, _)
StrLess(a, b) ==
    IF b = <<>> THEN FALSE
    ELSE IF a = <<>> THEN TRUE
    ELSE IF Head(a) = Head(b) THEN StrLess(Tail(a), Tail(b))
    ELSE Ord(Head(a)) < Ord(Head(b))

\* s[i:].startswith(p)   (i is 1-based)
PrefixAt(s, p, i) ==
    /\ i + Len(p) - 1 <= Len(s)
    /\ \A k \in 1..Len(p) : s[i + k - 1] = p[k]
StartsWith(s, p) == PrefixAt(s, p, 1)
EndsWith(s, p) == Len(p) <= Len(s) /\ PrefixAt(s, p, Len(s) - Len(p) + 1)
\* p in s
Contains(s, p) == \E i \in 1..(Len(s) + 1) : PrefixAt(s, p, i)

\* s.replace(p, r) for a non-empty p: leftmost non-overlapping occurrences
RECURSIVE ReplaceFrom(_, _, _, _)
ReplaceFrom(s, p, r, i) ==
    IF i > Len(s) THEN <<>>
    ELSE IF PrefixAt(s, p, i) THEN r \o ReplaceFrom(s, p, r, i + Len(p))
    ELSE <<s[i]>> \o ReplaceFrom(s, p, r, i + 1)
Replace(s, p, r) == ReplaceFrom(s, p, r, 1)

\* s.strip()
RECURSIVE LStrip(_)
LStrip(s) == IF s # <<>> /\ Head(s) \in SpaceChar THEN LStrip(Tail(s)) ELSE s
RECURSIVE RStrip(_)
RStrip(s) ==
    IF s # <<>> /\ s[Len(s)] \in SpaceChar THEN RStrip(SubSeq(s, 1, Len(s) - 1)) ELSE s
Strip(s) == RStrip(LStrip(s))

(***************************************************************************)
(* merge_methods: the return-type clean-up, the method key, the two scans  *)
(* and the final sort.                                                     *)
(***************************************************************************)
\* re.sub(r'(\w)\*', r'\1 *', t): a space before every * that follows a word character
RECURSIVE SpaceBeforeStar(_, _)
SpaceBeforeStar(t, i) ==
    IF i > Len(t) THEN <<>>
    ELSE IF t[i] = "*" /\ i > 1 /\ t[i - 1] \in WordChar
         THEN <<" ", "*">> \o SpaceBeforeStar(t, i + 1)
         ELSE <<t[i]>> \o SpaceBeforeStar(t, i + 1)

\* re.sub(r'\*\s+', r'*', t): the white space that follows a * is removed
RECURSIVE NoSpaceAfterStar(_, _, _)
NoSpaceAfterStar(t, i, afterStar) ==
    IF i > Len(t) THEN <<>>
    ELSE IF afterStar /\ t[i] \in SpaceChar THEN NoSpaceAfterStar(t, i + 1, TRUE)
    ELSE <<t[i]>> \o NoSpaceAfterStar(t, i + 1, t[i] = "*")

\* lines 110-116 (and 138-144): an empty return type is left alone
CleanReturnType(t) ==
    IF t = <<>> THEN t ELSE NoSpaceAfterStar(SpaceBeforeStar(t, 1), 1, FALSE)

\* A method stub.  signature is <<>> when the record has no 'signature' key and
\* <<s>> when it has; source is "none" until merge_methods marks it.
Method(n, rt, sig, d, st) ==
    [name |-> n, return_type |-> rt, signature |-> sig, description |-> d,
     is_static |-> st, source |-> "none"]

\* method.get('signature', f"{method_name}()")
MethodSig(method) ==
    IF method.signature = <<>> THEN method.name \o <<"(", ")">> ELSE method.signature[1]

\* f"{method_name}|{method_sig}"
MethodKey(method) == method.name \o <<"|">> \o MethodSig(method)

\* The scan state: merged_methods, and method_map as key -> position in
\* merged_methods of the record the map refers to (the dicts are shared).
EmptyMerge == [merged_methods |-> <<>>, method_map |-> <<>>]

MapPut(map, key, pos) == [k \in (DOMAIN map) \cup {key} |-> IF k = key THEN pos ELSE map[k]]

\* lines 104-128: one iteration of the scan of api_methods
merge_api_method(st, method) ==
    IF method.name = <<>> THEN st
    ELSE LET m == [method EXCEPT !.return_type = CleanReturnType(@), !.source = "api"]
         IN [merged_methods |-> Append(st.merged_methods, m),
             method_map |-> MapPut(st.method_map, MethodKey(m), Len(st.merged_methods) + 1)]

\* A scan of the UML methods that never consults method_map.
merge_uml_method_NoLookup(st, method) ==
    IF method.name = <<>> THEN st
    ELSE LET m == [method EXCEPT !.return_type = CleanReturnType(@), !.source = "uml"]
         IN [merged_methods |-> Append(st.merged_methods, m),
             method_map |-> MapPut(st.method_map, MethodKey(m), Len(st.merged_methods) + 1)]

\* lines 132-163: one iteration of the scan of uml_methods
merge_uml_method(st, method) ==
    IF method.name = <<>> THEN st
    ELSE LET m   == [method EXCEPT !.return_type = CleanReturnType(@)]
             key == MethodKey(m)
         IN IF key \in DOMAIN st.method_map
            THEN LET pos == st.method_map[key]
                     old == st.merged_methods[pos]
                     new == [old EXCEPT !.source = "both",
                                        !.description =
                                            IF old.description = <<>> /\ m.description # <<>>
                                            THEN m.description ELSE @]
                 IN [st EXCEPT !.merged_methods[pos] = new]
            ELSE [merged_methods |-> Append(st.merged_methods, [m EXCEPT !.source = "uml"]),
                  method_map |-> MapPut(st.method_map, key, Len(st.merged_methods) + 1)]

\* sorted(merged_methods, key=lambda m: m.get('name', '')): a stable sort
RECURSIVE InsertByName(_, _)
InsertByName(sorted, m) ==
    IF sorted = <<>> THEN <<m>>
    ELSE IF StrLess(m.name, Head(sorted).name) THEN <<m>> \o sorted
    ELSE <<Head(sorted)>> \o InsertByName(Tail(sorted), m)
RECURSIVE SortByName(_)
SortByName(ms) ==
    IF ms = <<>> THEN <<>>
    ELSE InsertByName(SortByName(SubSeq(ms, 1, Len(ms) - 1)), ms[Len(ms)])

RECURSIVE ScanApi(_, _)
ScanApi(st, ms) == IF ms = <<>> THEN st ELSE ScanApi(merge_api_method(st, Head(ms)), Tail(ms))
RECURSIVE ScanUml(_, _)
ScanUml(st, ms) == IF ms = <<>> THEN st ELSE ScanUml(merge_uml_method(st, Head(ms)), Tail(ms))

\* merge_methods(api_methods, uml_methods) as one call
merge_methods(api, uml) == SortByName(ScanUml(ScanApi(EmptyMerge, api), uml).merged_methods)

(***************************************************************************)
(* src/crossref_api_uml.py: merge_class_info, the merge that scans the UML *)
(* methods first and keys method_dict by the method name alone.            *)
(***************************************************************************)
\* a method of method_dict; api_verified is FALSE when the key is absent
Verified(method, flag) ==
    [name |-> method.name, return_type |-> method.return_type,
     signature |-> method.signature, description |-> method.description,
     is_static |-> method.is_static, source |-> method.source, api_verified |-> flag]

\* method_dict is an insertion-ordered dict: a sequence with distinct names
NameIndex(method_dict, method_name) ==
    { k \in 1..Len(method_dict) : method_dict[k].name = method_name }

\* lines 44-47: one UML method
put_uml_method(method_dict, method) ==
    IF method.name = <<>> THEN method_dict
    ELSE IF NameIndex(method_dict, method.name) = {}
    THEN Append(method_dict, Verified(method, FALSE))
    ELSE [method_dict EXCEPT ![CHOOSE k \in NameIndex(method_dict, method.name) : TRUE] =
                                Verified(method, FALSE)]

\* lines 50-66: one API method; an entry of the same name is updated with the
\* signature ('' when the API method has none), return type and static flag
update_api_method(method_dict, method) ==
    IF method.name = <<>> THEN method_dict
    ELSE IF NameIndex(method_dict, method.name) = {}
    THEN Append(method_dict, Verified(method, TRUE))
    ELSE LET k == CHOOSE k \in NameIndex(method_dict, method.name) : TRUE
         IN [method_dict EXCEPT
                ![k].signature = IF method.signature = <<>> THEN << <<>> >>
                                 ELSE method.signature,
                ![k].return_type = method.return_type,
                ![k].is_static = method.is_static,
                ![k].api_verified = TRUE]

RECURSIVE PutUmlMethods(_, _)
PutUmlMethods(method_dict, ms) ==
    IF ms = <<>> THEN method_dict
    ELSE PutUmlMethods(put_uml_method(method_dict, Head(ms)), Tail(ms))

RECURSIVE UpdateApiMethods(_, _)
UpdateApiMethods(method_dict, ms) ==
    IF ms = <<>> THEN method_dict
    ELSE UpdateApiMethods(update_api_method(method_dict, Head(ms)), Tail(ms))

\* merge_class_info(uml_info, api_info) of src/crossref_api_uml.py: None (<<>>)
\* when either record is missing, else the merged record
script_merge_class_info(uml_info, api_info) ==
    IF uml_info = <<>> \/ api_info = <<>> THEN <<>>
    ELSE << [description |-> api_info[1].description,
             inheritance |-> api_info[1].inheritance,
             methods |-> UpdateApiMethods(PutUmlMethods(<<>>, uml_info[1].methods),
                                          api_info[1].methods)] >>

(***************************************************************************)
(* clean_description of the cross-referencer (crossref_api_uml.py).        *)
(***************************************************************************)
n_MemberFunctionDocumentation == <<"M","e","m","b","e","r"," ","F","u","n",
    "c","t","i","o","n"," ","D","o","c","u","m","e","n","t","a","t","i","o",
    "n">>
n_MemberDataDocumentation == <<"M","e","m","b","e","r"," ","D","a","t","a",
    " ","D","o","c","u","m","e","n","t","a","t","i","o","n">>
n_ProtectedMemberFunctions == <<"P","r","o","t","e","c","t","e","d"," ","M",
    "e","m","b","e","r"," ","F","u","n","c","t","i","o","n","s">>
n_ProtectedAttributes == <<"P","r","o","t","e","c","t","e","d"," ","A","t",
    "t","r","i","b","u","t","e","s">>
n_ReturnToTopOfPage == <<"R","e","t","u","r","n"," ","t","o"," ","t","o","p",
    " ","o","f"," ","p","a","g","e">>
n_CopyrightHead == <<"C","o","p","y","r","i","g","h","t"," ">>
n_CopyrightTail == <<" ","C","a","d","e","n","c","e"," ","D","e","s","i","g",
    "n"," ","S","y","s","t","e","m","s",","," ","I","n","c",".">>
n_AllRightsReserved == <<"A","l","l"," ","R","i","g","h","t","s"," ","R","e",
    "s","e","r","v","e","d",".">>
n_GeneratedFrom == <<"T","h","e"," ","d","o","c","u","m","e","n","t","a","t",
    "i","o","n"," ","f","o","r"," ","t","h","i","s"," ","c","l","a","s","s",
    " ","w","a","s"," ","g","e","n","e","r","a","t","e","d"," ","f","r","o",
    "m"," ","t","h","e"," ","f","o","l","l","o","w","i","n","g"," ","f","i",
    "l","e">>
s_InferredFromGetter == <<"I","n","f","e","r","r","e","d"," ","f","r","o","m",
    " ","g","e","t","t","e","r"," ","m","e","t","h","o","d"," ">>
s_InferredFromIs == <<"I","n","f","e","r","r","e","d"," ","f","r","o","m"," ",
    "i","s"," ","m","e","t","h","o","d"," ">>
s_InferredFromHas == <<"I","n","f","e","r","r","e","d"," ","f","r","o","m",
    " ","h","a","s"," ","m","e","t","h","o","d"," ">>
s_oaBoolean == <<"o","a","B","o","o","l","e","a","n">>
s_unknown == <<"u","n","k","n","o","w","n">>

\* re.sub(r'\s+', ' ', d): every run of white space becomes one space
RECURSIVE CollapseSpace(_, _)
CollapseSpace(d, i) ==
    IF i > Len(d) THEN <<>>
    ELSE IF d[i] \in SpaceChar
         THEN IF i > 1 /\ d[i - 1] \in SpaceChar THEN CollapseSpace(d, i + 1)
              ELSE <<" ">> \o CollapseSpace(d, i + 1)
         ELSE <<d[i]>> \o CollapseSpace(d, i + 1)

\* re.sub(r'Copyright .* Cadence Design Systems, Inc\.', '', d): the greedy .*
\* runs to the last tail after the head (d holds no line break by then)
RECURSIVE SubCopyright(_, _)
SubCopyright(d, i) ==
    IF i > Len(d) THEN <<>>
    ELSE LET from  == i + Len(n_CopyrightHead)
             tails == { j \in from..Len(d) : PrefixAt(d, n_CopyrightTail, j) }
         IN IF PrefixAt(d, n_CopyrightHead, i) /\ tails # {}
            THEN LET last == CHOOSE j \in tails : \A k \in tails : k <= j
                 IN SubCopyright(d, last + Len(n_CopyrightTail))
            ELSE <<d[i]>> \o SubCopyright(d, i + 1)

\* lines 283-295: the noise patterns, in order
RemoveNoise(d) ==
    LET d1 == Replace(d, n_MemberFunctionDocumentation, <<>>)
        d2 == Replace(d1, n_MemberDataDocumentation, <<>>)
        d3 == Replace(d2, n_ProtectedMemberFunctions, <<>>)
        d4 == Replace(d3, n_ProtectedAttributes, <<>>)
        d5 == Replace(d4, n_ReturnToTopOfPage, <<>>)
        d6 == SubCopyright(d5, 1)
        d7 == Replace(d6, n_AllRightsReserved, <<>>)
    IN Replace(d7, n_GeneratedFrom, <<>>)

\* line 298: the three entity replacements, in order
DecodeEntities(d) ==
    Replace(Replace(Replace(d, <<"&","l","t",";">>, <<"<">>),
                    <<"&","g","t",";">>, <<">">>),
            <<"&","a","m","p",";">>, <<"&">>)

\* UMLAPIXReferencer.clean_description
clean_description(description) ==
    IF description = <<>> THEN <<>>
    ELSE Strip(DecodeEntities(RemoveNoise(CollapseSpace(description, 1))))

(***************************************************************************)
(* infer_attributes_from_methods.                                          *)
(***************************************************************************)
UpperSeq == <<"A","B","C","D","E","F","G","H","I","J","K","L","M","N","O","P","Q",
              "R","S","T","U","V","W","X","Y","Z">>
LowerSeq == <<"a","b","c","d","e","f","g","h","i","j","k","l","m","n","o","p","q",
              "r","s","t","u","v","w","x","y","z">>
\* c.lower()
ToLower(c) ==
    IF c \in Upper THEN LowerSeq[CHOOSE i \in 1..26 : UpperSeq[i] = c] ELSE c
\* s[0].lower() + s[1:]
LowerFirst(s) == <<ToLower(s[1])>> \o Tail(s)

\* re.compile(r'^<prefix>([A-Z]\w+)$').match(name)
MatchesAccessor(name, prefix) ==
    /\ StartsWith(name, prefix)
    /\ Len(name) >= Len(prefix) + 2
    /\ name[Len(prefix) + 1] \in Upper
    /\ \A k \in (Len(prefix) + 2)..Len(name) : name[k] \in WordChar
\* group(1) of the match
AccessorGroup(name, prefix) == SubSeq(name, Len(prefix) + 1, Len(name))

\* An attribute: type is <<>> when the record has no 'type' key, <<t>> otherwise
Attribute(n, ty, d, inf) == [name |-> n, type |-> ty, description |-> d, inferred |-> inf]

\* attributes_map is an insertion-ordered dict: a sequence of attributes with
\* distinct names
AttrIndex(map, n) == { k \in 1..Len(map) : map[k].name = n }
AttrPut(map, attr) ==
    IF AttrIndex(map, attr.name) = {} THEN Append(map, attr)
    ELSE [map EXCEPT ![CHOOSE k \in AttrIndex(map, attr.name) : TRUE] = attr]

\* line 217: {attr.get('name'): attr for attr in attributes if attr.get('name')}
RECURSIVE AttributesMap(_)
AttributesMap(attributes) ==
    IF attributes = <<>> THEN <<>>
    ELSE LET rest == AttributesMap(SubSeq(attributes, 1, Len(attributes) - 1))
             a    == attributes[Len(attributes)]
         IN IF a.name = <<>> THEN rest ELSE AttrPut(rest, a)

\* the getter branch with an inferred attribute replacing the one present
InferFromGetter_Overwrites(map, method) ==
    IF ~MatchesAccessor(method.name, <<"g","e","t">>) THEN map
    ELSE LET attr_name == LowerFirst(AccessorGroup(method.name, <<"g","e","t">>))
         IN AttrPut(map, Attribute(attr_name, <<method.return_type>>,
                                   s_InferredFromGetter \o method.name, TRUE))

\* lines 233-250: the getter branch for one method
InferFromGetter(map, method) ==
    IF ~MatchesAccessor(method.name, <<"g","e","t">>) THEN map
    ELSE LET attr_name == LowerFirst(AccessorGroup(method.name, <<"g","e","t">>))
             at        == AttrIndex(map, attr_name)
         IN IF at = {}
            THEN Append(map, Attribute(attr_name, <<method.return_type>>,
                                       s_InferredFromGetter \o method.name, TRUE))
            ELSE LET k == CHOOSE k \in at : TRUE
                 IN IF map[k].type = <<>> /\ method.return_type # <<>>
                    THEN [map EXCEPT ![k].type = <<method.return_type>>]
                    ELSE map

\* lines 252-268: the is/has branch for one method
InferFromPredicate(map, method) ==
    LET is_match  == MatchesAccessor(method.name, <<"i","s">>)
        has_match == MatchesAccessor(method.name, <<"h","a","s">>)
    IN IF ~(is_match \/ has_match) THEN map
       ELSE LET attr_name == LowerFirst(AccessorGroup(method.name,
                                 IF is_match THEN <<"i","s">> ELSE <<"h","a","s">>))
            IN IF AttrIndex(map, attr_name) # {} THEN map
               ELSE Append(map, Attribute(attr_name, <<s_oaBoolean>>,
                                (IF is_match THEN s_InferredFromIs ELSE s_InferredFromHas)
                                    \o method.name, TRUE))

\* lines 225-268: one iteration of `for method in methods`
infer_from_method(map, method) ==
    IF method.name = <<>> \/ method.return_type = <<>> THEN map
    ELSE InferFromPredicate(InferFromGetter(map, method), method)

RECURSIVE InferAll(_, _)
InferAll(map, methods) ==
    IF methods = <<>> THEN map
    ELSE InferAll(infer_from_method(map, Head(methods)), Tail(methods))

\* UMLAPIXReferencer.infer_attributes_from_methods
infer_attributes_from_methods(merged_info) ==
    [merged_info EXCEPT
        !.attributes = InferAll(AttributesMap(merged_info.attributes), merged_info.methods)]

(***************************************************************************)
(* html_doc_extractor.py: HTMLDocExtractor.infer_attributes_from_methods.  *)
(***************************************************************************)
s_Inferred == <<"I","n","f","e","r","r","e","d"," ","f","r","o","m"," ">>
s_method == <<" ","m","e","t","h","o","d">>

DocAttribute(n, ty, d, getter, setter) ==
    [name |-> n, type |-> ty, description |-> d, has_getter |-> getter,
     has_setter |-> setter]

\* method_name.startswith(prefix) and len(method_name) > 3
IsAccessor(method_name, prefix) == StartsWith(method_name, prefix) /\ Len(method_name) > 3

\* lines 292-293 and 308-309: method_name[3:] with its first letter lowered
AccessorAttr(method_name) == LowerFirst(SubSeq(method_name, 4, Len(method_name)))

\* the loop body with a setter that resets the attribute it finds
doc_infer_from_method_SetterResets(attrs, method) ==
    IF IsAccessor(method.name, <<"g","e","t">>)
    THEN IF AttrIndex(attrs, AccessorAttr(method.name)) # {} THEN attrs
         ELSE Append(attrs, DocAttribute(AccessorAttr(method.name),
                        IF method.return_type = <<>> THEN s_unknown ELSE method.return_type,
                        s_Inferred \o method.name \o s_method, TRUE, FALSE))
    ELSE IF IsAccessor(method.name, <<"s","e","t">>)
    THEN AttrPut(attrs, DocAttribute(AccessorAttr(method.name), s_unknown,
                                     s_Inferred \o method.name \o s_method, FALSE, TRUE))
    ELSE attrs

\* lines 286-321: one iteration of `for method in methods`; a method without
\* a return type (<<>>) takes the default 'unknown' of line 299
doc_infer_from_method(attrs, method) ==
    IF IsAccessor(method.name, <<"g","e","t">>)
    THEN IF AttrIndex(attrs, AccessorAttr(method.name)) # {} THEN attrs
         ELSE Append(attrs, DocAttribute(AccessorAttr(method.name),
                        IF method.return_type = <<>> THEN s_unknown ELSE method.return_type,
                        s_Inferred \o method.name \o s_method, TRUE, FALSE))
    ELSE IF IsAccessor(method.name, <<"s","e","t">>)
    THEN LET at == AttrIndex(attrs, AccessorAttr(method.name))
         IN IF at # {}
            THEN [attrs EXCEPT ![CHOOSE k \in at : TRUE].has_setter = TRUE]
            ELSE Append(attrs, DocAttribute(AccessorAttr(method.name), s_unknown,
                                            s_Inferred \o method.name \o s_method,
                                            FALSE, TRUE))
    ELSE attrs

(***************************************************************************)
(* The two sources on disk and their loaders.                              *)
(*   yaml_dir:     class name -> [module, parsed, info] for each           *)
(*                 <module>/class<Name>.yaml; parsed is FALSE for a file   *)
(*                 yaml.safe_load rejects                                  *)
(*   schema_files: the *_imagemap.json files in glob order, each           *)
(*                 [base, parsed, classes, relationships]; parsed is FALSE *)
(*                 for a file json.load rejects                            *)
(* An optional value is <<>> (None) or <<v>>.                              *)
(***************************************************************************)
ApiInfo(d, inh, ms) == [description |-> d, inheritance |-> inh, methods |-> ms]
UmlInfo(ms, attrs) == [methods |-> ms, attributes |-> attrs]
Rel(s, t, ty, mem, d) ==
    [source |-> s, target |-> t, type |-> ty, member |-> mem, description |-> d]

\* load_api_class: (api_info, module), or the YAMLError of an unparsable file
load_api_class(yaml_dir, class_name) ==
    IF class_name \notin DOMAIN yaml_dir
    THEN [raised |-> FALSE, info |-> <<>>, module |-> <<>>]
    ELSE IF ~yaml_dir[class_name].parsed
    THEN [raised |-> TRUE, info |-> <<>>, module |-> <<>>]
    ELSE [raised |-> FALSE, info |-> <<yaml_dir[class_name].info>>,
          module |-> <<yaml_dir[class_name].module>>]

\* the glob result carries the directory, source_files holds base names
SchemaPath(file) == <<"uml_dir", file.base>>
Basename(path) == <<path[2]>>

SameTriple(r1, r2) ==
    r1.source = r2.source /\ r1.target = r2.target /\ r1.type = r2.type

\* CollectRel with the duplicate test of lines 76-82 left out
CollectRel_NoDuplicateTest(acc, file, class_name, rel) ==
    IF ~(rel.source = class_name \/ rel.target = class_name) THEN acc
    ELSE [acc EXCEPT
            !.relationships = Append(@, rel),
            !.source_files =
                IF \A k \in 1..Len(acc.source_files) : acc.source_files[k] # SchemaPath(file)
                THEN Append(@, Basename(SchemaPath(file))) ELSE @]

\* lines 72-87: one relationship of a schema that holds the class
CollectRel(acc, file, class_name, rel) ==
    IF ~(rel.source = class_name \/ rel.target = class_name) THEN acc
    ELSE IF \E k \in 1..Len(acc.relationships) : SameTriple(acc.relationships[k], rel)
    THEN acc
    ELSE [acc EXCEPT
            !.relationships = Append(@, rel),
            !.source_files =
                IF \A k \in 1..Len(acc.source_files) : acc.source_files[k] # SchemaPath(file)
                THEN Append(@, Basename(SchemaPath(file))) ELSE @]

RECURSIVE CollectRels(_, _, _, _)
CollectRels(acc, file, class_name, rels) ==
    IF rels = <<>> THEN acc
    ELSE CollectRels(CollectRel(acc, file, class_name, Head(rels)), file, class_name,
                     Tail(rels))

\* lines 59-90: one schema file
LoadFromSchema(acc, file, class_name) ==
    IF ~file.parsed THEN acc
    ELSE IF class_name \notin DOMAIN file.classes THEN acc
    ELSE LET first == IF acc.class_info = <<>>
                      THEN [acc EXCEPT !.class_info = <<file.classes[class_name]>>,
                                       !.source_files =
                                            Append(@, Basename(SchemaPath(file)))]
                      ELSE acc
         IN CollectRels(first, file, class_name, file.relationships)

RECURSIVE LoadSchemas(_, _, _)
LoadSchemas(acc, files, class_name) ==
    IF files = <<>> THEN acc
    ELSE LoadSchemas(LoadFromSchema(acc, Head(files), class_name), Tail(files), class_name)

\* load_uml_class: (class_info, relationships, source_files)
load_uml_class(schema_files, class_name) ==
    LoadSchemas([class_info |-> <<>>, relationships |-> <<>>, source_files |-> <<>>],
                schema_files, class_name)

(***************************************************************************)
(* merge_class_info and process_class.                                     *)
(***************************************************************************)
\* merge_class_info with `or` for `and` in the test of line 177
merge_class_info_EitherMissing(yaml_dir, schema_files, class_name) ==
    LET api == load_api_class(yaml_dir, class_name)
        uml == load_uml_class(schema_files, class_name)
    IN IF api.raised THEN [raised |-> TRUE, result |-> <<>>]
       ELSE IF api.info = <<>> \/ uml.class_info = <<>>
       THEN [raised |-> FALSE, result |-> <<>>]
       ELSE [raised |-> FALSE,
             result |-> <<[name |-> class_name,
                           description |-> api.info[1].description,
                           module |-> api.module[1],
                           inheritance |-> api.info[1].inheritance,
                           methods |-> merge_methods(api.info[1].methods,
                                                     uml.class_info[1].methods),
                           attributes |-> uml.class_info[1].attributes,
                           relationships |-> uml.relationships,
                           sources |-> [api |-> TRUE, uml |-> uml.source_files]]>>]

\* merge_class_info: None (<<>>) when neither source has the class
merge_class_info(yaml_dir, schema_files, class_name) ==
    LET api == load_api_class(yaml_dir, class_name)
        uml == load_uml_class(schema_files, class_name)
    IN IF api.raised THEN [raised |-> TRUE, result |-> <<>>]
       ELSE IF api.info = <<>> /\ uml.class_info = <<>>
       THEN [raised |-> FALSE, result |-> <<>>]
       ELSE [raised |-> FALSE,
             result |-> <<[name |-> class_name,
                           description |->
                               IF api.info # <<>> THEN api.info[1].description ELSE <<>>,
                           module |->
                               IF api.module # <<>> THEN api.module[1] ELSE "unknown",
                           inheritance |->
                               IF api.info # <<>> THEN api.info[1].inheritance ELSE <<>>,
                           methods |->
                               merge_methods(
                                   IF api.info # <<>> THEN api.info[1].methods ELSE <<>>,
                                   IF uml.class_info # <<>> THEN uml.class_info[1].methods
                                   ELSE <<>>),
                           attributes |->
                               IF uml.class_info # <<>> THEN uml.class_info[1].attributes
                               ELSE <<>>,
                           relationships |-> uml.relationships,
                           sources |-> [api |-> api.info # <<>>,
                                        uml |-> uml.source_files]]>>]

\* process_class up to its return value: None, the merged record that is also
\* written to <output_dir>/<class_name>.json, or the exception of the loader
process_class(yaml_dir, schema_files, class_name) ==
    LET merged == merge_class_info(yaml_dir, schema_files, class_name)
    IN IF merged.raised \/ merged.result = <<>> THEN merged
       ELSE [raised |-> FALSE,
             result |-> <<infer_attributes_from_methods(
                             [merged.result[1] EXCEPT
                                 !.description = clean_description(@)])>>]

\* sorted(class_names) of get_all_class_names
RECURSIVE SortNames(_)
SortNames(S) ==
    IF S = {} THEN <<>>
    ELSE LET least == CHOOSE n \in S : \A o \in S \ {n} : StrLess(n, o)
         IN <<least>> \o SortNames(S \ {least})

\* get_all_class_names: the API file names and the classes of every schema
\* file that parses
get_all_class_names(yaml_dir, schema_files) ==
    SortNames((DOMAIN yaml_dir) \cup
              UNION { DOMAIN schema_files[k].classes :
                        k \in { j \in 1..Len(schema_files) : schema_files[j].parsed } })

(***************************************************************************)
(* enhanced_domain_ontology.py: the classification of a name, the          *)
(* description of a node, and the two kinds of edge of the graph.          *)
(***************************************************************************)
\* DOMAIN_CONCEPTS, in the order of the dict
DOMAIN_CONCEPTS ==
    <<
      [domain |-> "Physical", concepts |-> <<
          <<"B","l","o","c","k">>,
          <<"F","i","g">>,
          <<"S","h","a","p","e">>,
          <<"R","e","c","t">>,
          <<"P","a","t","h">>,
          <<"V","i","a">>,
          <<"P","i","n">>,
          <<"T","e","x","t">>,
          <<"L","a","y","e","r">>,
          <<"D","e","s","i","g","n">>>>],
      [domain |-> "Connectivity", concepts |-> <<
          <<"N","e","t">>,
          <<"T","e","r","m">>,
          <<"I","n","s","t","T","e","r","m">>,
          <<"C","o","n","n">>,
          <<"R","o","u","t","e">>,
          <<"G","u","i","d","e">>,
          <<"P","i","n">>>>],
      [domain |-> "Hierarchy", concepts |-> <<
          <<"M","o","d","u","l","e">>,
          <<"D","e","s","i","g","n">>,
          <<"B","l","o","c","k">>,
          <<"I","n","s","t">>,
          <<"S","c","a","l","a","r","I","n","s","t">>,
          <<"V","e","c","t","o","r","I","n","s","t">>,
          <<"A","r","r","a","y","I","n","s","t">>,
          <<"O","c","c","u","r","r","e","n","c","e">>>>],
      [domain |-> "Layout", concepts |-> <<
          <<"R","o","w">>,
          <<"S","i","t","e">>,
          <<"T","r","a","c","k">>,
          <<"G","C","e","l","l">>,
          <<"B","o","u","n","d","a","r","y">>,
          <<"B","l","o","c","k","a","g","e">>,
          <<"H","a","l","o">>,
          <<"C","o","r","e">>>>],
      [domain |-> "Device", concepts |-> <<
          <<"D","e","v","i","c","e">>,
          <<"R","e","s","i","s","t","o","r">>,
          <<"C","a","p","a","c","i","t","o","r">>,
          <<"I","n","d","u","c","t","o","r">>,
          <<"D","i","o","d","e">>,
          <<"T","r","a","n","s","i","s","t","o","r">>>>] >>

\* UML_TO_DOMAIN.get(rel_type, "RELATED_TO")
UML_TO_DOMAIN(rel_type) ==
    CASE rel_type = "inheritance" -> "SPECIALIZES"
      [] rel_type = "aggregation-many" -> "CONTAINS_MANY"
      [] rel_type = "aggregation-single" -> "CONTAINS_ONE"
      [] rel_type = "association-reference" -> "REFERENCES"
      [] rel_type = "association-many" -> "ASSOCIATED_WITH_MANY"
      [] rel_type = "association" -> "ASSOCIATED_WITH"
      [] rel_type = "composition" -> "COMPOSED_OF"
      [] rel_type = "usage" -> "USES"
      [] OTHER -> "RELATED_TO"

\* the first concept of the list that is a substring of base_name, if any
RECURSIVE FirstConcept(_, _)
FirstConcept(concepts, base_name) ==
    IF concepts = <<>> THEN <<>>
    ELSE IF Contains(base_name, Head(concepts)) THEN <<Head(concepts)>>
    ELSE FirstConcept(Tail(concepts), base_name)

RECURSIVE FirstDomain(_, _)
FirstDomain(table, base_name) ==
    IF table = <<>> THEN [domain |-> "Other", concept |-> <<"U","n","k","n","o","w","n">>]
    ELSE LET c == FirstConcept(Head(table).concepts, base_name)
         IN IF c # <<>> THEN [domain |-> Head(table).domain, concept |-> c[1]]
            ELSE FirstDomain(Tail(table), base_name)

\* extract_domain_type(class_name)
extract_domain_type(class_name) ==
    FirstDomain(DOMAIN_CONCEPTS,
                Replace(Replace(Replace(class_name, <<"o","a">>, <<>>),
                                <<"M","o","d">>, <<>>),
                        <<"O","c","c">>, <<>>))

\* max_length of clean_description
MaxDescriptionLength == 200

\* clean_description(description, max_length=200) of the graph builder
domain_clean_description(description) ==
    IF description = <<>> THEN <<>>
    ELSE LET desc == Strip(CollapseSpace(description, 1))
         IN IF Len(desc) > MaxDescriptionLength
            THEN SubSeq(desc, 1, MaxDescriptionLength - 3) \o <<".",".",".">>
            ELSE desc

\* the attributes of domain_graph.add_node(class_name, ...), lines 120-129
NodeAttributes(class_name, data) ==
    LET dt == extract_domain_type(class_name)
    IN [label |-> Replace(class_name, <<"o","a">>, <<>>),
        type |-> "Class",
        domain |-> dt.domain,
        concept |-> dt.concept,
        description |-> domain_clean_description(data.description),
        methods_count |-> Len(data.methods)]

\* The graph under construction.  domain_graph is a networkx DiGraph: its edges
\* are keyed by the pair (source, target), and add_edge on a pair that has an
\* edge overwrites the attributes given.
EmptyGraph ==
    [edges |-> <<>>,
     relationship_counts |-> <<>>,
     source_counts |-> [uml_only |-> 0, api_inferred |-> 0, crossref |-> 0]]

\* relationship_counts[t] += 1 on a defaultdict(int)
CountUp(counts, t) ==
    [k \in (DOMAIN counts) \cup {t} |->
        IF k = t THEN (IF t \in DOMAIN counts THEN counts[t] ELSE 0) + 1 ELSE counts[k]]

\* domain_graph.add_edge(u, v, **attrs)
add_edge(edges, u, v, attrs) ==
    [k \in (DOMAIN edges) \cup {<<u, v>>} |-> IF k = <<u, v>> THEN attrs ELSE edges[k]]

\* the second pass without the test of line 153
add_uml_relationship_NoEndpointTest(g, node_names, rel) ==
    LET domain_rel_type == UML_TO_DOMAIN(rel.type)
    IN [edges |-> add_edge(g.edges, rel.source, rel.target,
                           [type |-> domain_rel_type,
                            description |-> rel.description,
                            member |-> rel.member,
                            source |-> "uml"]),
        relationship_counts |-> CountUp(g.relationship_counts, domain_rel_type),
        source_counts |-> [g.source_counts EXCEPT !.uml_only = @ + 1]]

\* lines 145-168: one relationship of the class's UML relationships
add_uml_relationship(g, node_names, rel) ==
    IF rel.source \notin node_names \/ rel.target \notin node_names THEN g
    ELSE LET domain_rel_type == UML_TO_DOMAIN(rel.type)
         IN [edges |-> add_edge(g.edges, rel.source, rel.target,
                                [type |-> domain_rel_type,
                                 description |-> rel.description,
                                 member |-> rel.member,
                                 source |-> "uml"]),
             relationship_counts |-> CountUp(g.relationship_counts, domain_rel_type),
             source_counts |-> [g.source_counts EXCEPT !.uml_only = @ + 1]]

AlphaNum == Upper \cup Lower \cup Digit

\* group(1) of re.match(r'get([A-Z][a-zA-Z0-9]*)', method_name), lower-camel-cased;
\* "" when there is no match
RECURSIVE AlphaNumRun(_, _)
AlphaNumRun(s, i) ==
    IF i > Len(s) \/ s[i] \notin AlphaNum THEN <<>> ELSE <<s[i]>> \o AlphaNumRun(s, i + 1)
MemberOfGetter(method_name) ==
    IF StartsWith(method_name, <<"g","e","t">>) /\ Len(method_name) >= 4
       /\ method_name[4] \in Upper
    THEN LowerFirst(<<method_name[4]>> \o AlphaNumRun(method_name, 5))
    ELSE <<>>

\* lines 179-182: a getter that returns a pointer to an OA class
IsClassGetter(method) ==
    /\ StartsWith(method.name, <<"g","e","t">>)
    /\ method.return_type # <<>>
    /\ Contains(method.return_type, <<"o","a">>)
    /\ Contains(method.return_type, <<"*">>)

\* line 185: return_type.replace('*', '').strip()
TargetClass(return_type) == Strip(Replace(return_type, <<"*">>, <<>>))

\* lines 192-195
InferredType(method) ==
    IF Contains(method.return_type, <<"C","o","l","l","e","c","t","i","o","n">>)
       \/ EndsWith(method.name, <<"s">>)
    THEN "CONTAINS_MANY" ELSE "CONTAINS_ONE"

\* lines 206-210: an edge out of class_name already carries this member
HasExistingMember(edges, class_name, member) ==
    \E k \in DOMAIN edges : k[1] = class_name /\ edges[k].member = member

\* lines 174-222: one method of the class
infer_relationship(g, node_names, class_name, method) ==
    IF ~IsClassGetter(method) THEN g
    ELSE LET target_class == TargetClass(method.return_type)
             rel_type     == InferredType(method)
             member       == MemberOfGetter(method.name)
         IN IF target_class \notin node_names THEN g
            ELSE IF HasExistingMember(g.edges, class_name, member) THEN g
            ELSE [edges |-> add_edge(g.edges, class_name, target_class,
                                [type |-> rel_type,
                                 description |->
                                    <<"I","n","f","e","r","r","e","d"," ","f","r","o","m"," ",
                                      "m","e","t","h","o","d"," ">> \o method.name,
                                 member |-> member,
                                 source |-> "api_inferred"]),
                  relationship_counts |-> CountUp(g.relationship_counts, rel_type),
                  source_counts |-> [g.source_counts EXCEPT !.api_inferred = @ + 1]]

\* lines 145-168 for the relationships of one class, from the i-th on
RECURSIVE add_uml_relationships(_, _, _, _)
add_uml_relationships(g, node_names, rels, i) ==
    IF i > Len(rels) THEN g
    ELSE add_uml_relationships(add_uml_relationship(g, node_names, rels[i]),
                               node_names, rels, i + 1)

\* lines 174-222 for the methods of one class, from the i-th on
RECURSIVE infer_relationships(_, _, _, _, _)
infer_relationships(g, node_names, class_name, methods, i) ==
    IF i > Len(methods) THEN g
    ELSE infer_relationships(infer_relationship(g, node_names, class_name, methods[i]),
                             node_names, class_name, methods, i + 1)

\* lines 139-222: the second pass over the classes in the given order, from
\* the c-th on
RECURSIVE second_pass(_, _, _, _)
second_pass(g, data, order, c) ==
    IF c > Len(order) THEN g
    ELSE second_pass(
            infer_relationships(
                add_uml_relationships(g, DOMAIN data, data[order[c]].relationships, 1),
                DOMAIN data, order[c], data[order[c]].methods, 1),
            data, order, c + 1)

\* lines 225-227: the totals of the summary
SumCounts(counts) ==
    LET RECURSIVE Sum(_)
        Sum(S) == IF S = {} THEN 0
                  ELSE LET t == CHOOSE t \in S : TRUE IN counts[t] + Sum(S \ {t})
    IN Sum(DOMAIN counts)

(***************************************************************************)
(* cli_dependencies.py: the tables and the output test.                    *)
(***************************************************************************)
k_process_html == <<"process", "html">>
k_process_build == <<"process", "build">>
k_process_domain == <<"process", "domain">>
k_process_export == <<"process", "export">>
k_uml_diagram == <<"uml", "diagram">>
k_uml_imagemap == <<"uml", "imagemap">>
k_uml_combine == <<"uml", "combine">>
k_uml_to_yaml == <<"uml", "to-yaml">>
k_crossref_run == <<"crossref", "run">>
k_crossref_validate == <<"crossref", "validate">>
k_crossref_enhance == <<"crossref", "enhance">>
k_crossref_fix == <<"crossref", "fix">>
k_visualize_basic == <<"visualize", "basic">>
k_visualize_connected == <<"visualize", "connected">>
k_visualize_domain == <<"visualize", "domain">>
k_visualize_graph == <<"visualize", "graph">>

COMMAND_DEPENDENCIES ==
    (k_process_build :> <<k_process_html>>) @@
    (k_process_domain :> <<k_process_build>>) @@
    (k_process_export :> <<k_process_build>>) @@
    (k_uml_combine :> <<k_uml_diagram, k_uml_imagemap>>) @@
    (k_uml_to_yaml :> <<k_uml_diagram>>) @@
    (k_crossref_run :> <<k_process_html, k_uml_diagram, k_uml_imagemap>>) @@
    (k_crossref_validate :> <<k_crossref_run>>) @@
    (k_crossref_enhance :> <<k_process_domain, k_crossref_run>>) @@
    (k_crossref_fix :> <<k_crossref_enhance>>) @@
    (k_visualize_basic :> <<k_process_build>>) @@
    (k_visualize_connected :> <<k_visualize_graph>>) @@
    (k_visualize_domain :> <<k_crossref_enhance>>) @@
    (k_visualize_graph :> <<k_crossref_enhance>>)

COMMAND_OUTPUT_FILES ==
    (k_process_html :> <<"yaml_output/design/classoaDesignObject.yaml">>) @@
    (k_process_build :> <<"ontology_output/design_ontology.json">>) @@
    (k_process_domain :> <<"ontology_output/domain_ontology.json">>) @@
    (k_process_export :> <<"ontology_output/neo4j_import.cypher">>) @@
    (k_uml_diagram :> <<"yaml_output/schema/design_structure.json">>) @@
    (k_uml_imagemap :> <<"yaml_output/schema/design_imagemap.json">>) @@
    (k_uml_combine :> <<"yaml_output/ontology/combined_schema.json">>) @@
    (k_uml_to_yaml :> <<"yaml_output/ontology/design.yaml">>) @@
    (k_crossref_run :> <<"ontology_output/crossref/oaDesignObject.json">>) @@
    (k_crossref_validate :> <<"ontology_output/crossref/validation_report.md">>) @@
    (k_crossref_enhance :> <<"outputs/enhanced_domain_ontology.json">>) @@
    (k_crossref_fix :> <<"outputs/enhanced_domain_ontology_fixed.json">>) @@
    (k_visualize_basic :> <<"ontology_output/visualizations/ontology_report.html">>) @@
    (k_visualize_connected :> <<"outputs/connected_classes_visualization.html">>) @@
    (k_visualize_domain :> <<"outputs/enhanced_domain_visualization.html">>) @@
    (k_visualize_graph :> <<"outputs/visualization_graph.json">>)

\* the files of COMMAND_OUTPUT_FILES[key]
OutputFiles(key) ==
    IF key \in DOMAIN COMMAND_OUTPUT_FILES
    THEN { COMMAND_OUTPUT_FILES[key][i] : i \in 1..Len(COMMAND_OUTPUT_FILES[key]) }
    ELSE {}

\* check_command_output(command, subcommand), files being the files that exist
check_command_output(files, key) ==
    /\ key \in DOMAIN COMMAND_OUTPUT_FILES
    /\ OutputFiles(key) \subseteq files

\* table.get(command_key, [])
Prerequisites(table, key) == IF key \in DOMAIN table THEN table[key] ELSE <<>>

\* the commands a call for one of S can come to
RECURSIVE Reach(_, _)
Reach(table, S) ==
    LET T == S \cup UNION { { Prerequisites(table, k)[i] :
                                i \in 1..Len(Prerequisites(table, k)) } : k \in S }
    IN IF T = S THEN S ELSE Reach(table, T)

(***************************************************************************)
(* Texts of the model's inputs.                                            *)
(***************************************************************************)
s_getName == <<"g","e","t","N","a","m","e">>
s_getTerm == <<"g","e","t","T","e","r","m">>
s_getTerms == <<"g","e","t","T","e","r","m","s">>
s_addTerm == <<"a","d","d","T","e","r","m">>
s_oaString == <<"o","a","S","t","r","i","n","g">>
s_oaNet == <<"o","a","N","e","t">>
s_oaTerm == <<"o","a","T","e","r","m">>
s_oaPin == <<"o","a","P","i","n">>
s_oaVia == <<"o","a","V","i","a">>
s_void == <<"v","o","i","d">>
s_docA == <<"a","p","i">>
s_docU == <<"u","m","l">>
s_docNet == <<" ","a"," "," ","n","e","t"," ","&","a","m","p",";"," ">>
s_terms == <<"t","e","r","m","s">>
s_owner == <<"o","w","n","e","r">>
s_pin == <<"p","i","n">>
s_oaCollectionOfTerm == <<"o","a","C","o","l","l","e","c","t","i","o","n","<",
    "o","a","T","e","r","m",">">>

\* API method stubs as the page scraper writes them: with a 'signature'
\* (parse_html.py) or without one (html_doc_extractor.py)
ApiMethodPool ==
    { Method(s_getName, s_oaString, <<s_getName \o <<"(",")">>>>, s_docA, FALSE),
      Method(s_getName, s_oaString, <<s_getName \o <<"(","n",")">>>>, <<>>, TRUE),
      Method(s_getTerm, s_oaTerm \o <<"*">>, <<>>, <<>>, FALSE),
      Method(<<>>, s_void, <<>>, <<>>, FALSE) }

\* UML method stubs as the diagram reader writes them: no 'signature' key
UmlMethodPool ==
    { Method(s_getName, s_oaString, <<>>, s_docU, FALSE),
      Method(s_getTerm, s_oaTerm \o <<" ","*"," ">>, <<>>, s_docU, FALSE),
      Method(s_addTerm, s_void, <<>>, <<>>, FALSE),
      Method(<<>>, s_void, <<>>, s_docU, FALSE) }

s_setName == <<"s","e","t","N","a","m","e">>
s_hasName == <<"h","a","s","N","a","m","e">>
s_name == <<"n","a","m","e">>

\* the methods of the inference runs: a getter, its setter, a getter that
\* returns void, a getter without a return type and a predicate
InferMethodPool ==
    { Method(s_getName, s_oaString, <<>>, <<>>, FALSE),
      Method(s_setName, s_void, <<>>, <<>>, FALSE),
      Method(s_getName, s_void, <<>>, <<>>, FALSE),
      Method(s_getName, <<>>, <<>>, <<>>, FALSE),
      Method(s_hasName, s_oaBoolean, <<>>, <<>>, FALSE) }

\* the declared attributes: with and without a 'type' key
DeclaredAttributePool ==
    { Attribute(s_name, <<>>, s_docU, FALSE),
      Attribute(s_name, <<s_oaTerm>>, s_docA, FALSE) }

\* the pieces the descriptions passed to clean_description are made of
t_MemberFunct == <<"M","e","m","b","e","r"," ","F","u","n","c","t">>
t_ionDocumentation == <<"i","o","n"," ","D","o","c","u","m","e","n","t","a","t","i","o","n">>
TokenPool ==
    { <<"a">>, <<" ">>, <<"&","a","m","p",";">>, <<"l","t",";">>,
      n_AllRightsReserved, n_ProtectedAttributes, t_MemberFunct, t_ionDocumentation }

RECURSIVE Concat(_)
Concat(tokens) == IF tokens = <<>> THEN <<>> ELSE Head(tokens) \o Concat(Tail(tokens))

s_oaModule == <<"o","a","M","o","d","u","l","e">>
s_oaObject == <<"o","a","O","b","j","e","c","t">>
s_oaAppDef == <<"o","a","A","p","p","D","e","f">>

\* the class records of build_domain_ontology: a name and its inheritance
\* list, no 'methods' key
DomainNamePool == {s_oaNet, s_oaModule, s_oaObject, s_oaAppDef}
InheritancePool == { <<>>, <<s_oaObject>>, <<s_oaNet>>, <<s_oaObject, s_oaNet>> }
DomainYamlDirs ==
    UNION { [S -> [inheritance : InheritancePool]] :
                S \in { T \in SUBSET DomainNamePool : Cardinality(T) <= MaxDomainFiles } }

\* a dependency table with a cycle: process html -> process domain ->
\* process build -> process html
CyclicDependencies == (k_process_html :> <<k_process_domain>>) @@ COMMAND_DEPENDENCIES

DependencyTables == {COMMAND_DEPENDENCIES, CyclicDependencies}

\* the sequences over S of length at most n
SeqsUpTo(S, n) == UNION { [1..k -> S] : k \in 0..n }
\* the orders in which a directory listing can return the members of S
Orders(S) == { o \in [1..Cardinality(S) -> S] : \A i, j \in DOMAIN o : o[i] = o[j] => i = j }
\* the functions from a subset of D to R
PartialFns(D, R) == UNION { [S -> R] : S \in SUBSET D }

\* every name a caller may ask for; oaVia is in no source
ClassNamePool == {s_oaNet, s_oaTerm, s_oaPin, s_oaVia}

\* the relationship statements of the diagrams
r_NetTermsMany == Rel(s_oaNet, s_oaTerm, "aggregation-many", s_terms, s_docU)
r_NetTermSingle == Rel(s_oaNet, s_oaTerm, "aggregation-single", s_owner, <<>>)
r_NetPinSingle == Rel(s_oaNet, s_oaPin, "aggregation-single", s_pin, <<>>)
r_TermNetOwner == Rel(s_oaTerm, s_oaNet, "owner", <<>>, <<>>)

(***************************************************************************)
(* The sources of the fusion runs.                                         *)
(***************************************************************************)
FusionApiInfo(n) ==
    IF n = s_oaNet
    THEN ApiInfo(s_docNet, <<>>,
                 << Method(s_getName, s_oaString, <<s_getName \o <<"(",")">>>>, s_docA, FALSE),
                    Method(s_getTerms, s_oaCollectionOfTerm, <<>>, <<>>, FALSE) >>)
    ELSE IF n = s_oaTerm
    THEN ApiInfo(<<>>, <<s_oaPin>>, <<>>)
    ELSE ApiInfo(s_docA, <<>>, <<Method(s_getName, s_oaString, <<>>, <<>>, FALSE)>>)

ApiFile(n, parsed) ==
    [module |-> "design", parsed |-> parsed,
     info |-> IF parsed THEN FusionApiInfo(n) ELSE ApiInfo(<<>>, <<>>, <<>>)]

FusionYamlDirs ==
    { [n \in DOMAIN p |-> ApiFile(n, p[n])] : p \in PartialFns({s_oaNet, s_oaTerm, s_oaPin}, BOOLEAN) }

SchemaFile(base, parsed, classes, rels) ==
    [base |-> base, parsed |-> parsed,
     classes |-> IF parsed THEN classes ELSE <<>>,
     relationships |-> IF parsed THEN rels ELSE <<>>]

FusionUmlInfo(n) ==
    IF n = s_oaNet
    THEN UmlInfo(<<Method(s_getName, s_oaString, <<>>, s_docU, FALSE)>>,
                 <<Attribute(<<"n","a","m","e">>, <<>>, s_docU, FALSE)>>)
    ELSE IF n = s_oaPin
    THEN [methods |-> <<>>, attributes |-> <<>>, description |-> s_docU]
    ELSE UmlInfo(<<>>, <<>>)

FusionSchemaPool ==
    { SchemaFile("d1_imagemap.json", p, [n \in {s_oaNet, s_oaTerm} |-> FusionUmlInfo(n)],
                 <<r_NetTermsMany, r_NetTermSingle>>) : p \in BOOLEAN }
    \cup
    { SchemaFile("d2_imagemap.json", p, [n \in {s_oaTerm, s_oaPin} |-> FusionUmlInfo(n)],
                 <<r_NetTermsMany, r_TermNetOwner>>) : p \in BOOLEAN }
    \cup
    { SchemaFile("d3_imagemap.json", p, [n \in {s_oaPin} |-> FusionUmlInfo(n)],
                 <<r_NetPinSingle>>) : p \in BOOLEAN }

\* a directory holds each file name once
FusionSchemaDirs ==
    { fs \in SeqsUpTo(FusionSchemaPool, MaxSchemaFiles) :
        \A i, j \in DOMAIN fs : fs[i].base = fs[j].base => i = j }

(***************************************************************************)
(* The sources behind the crossref files the graph builder loads.          *)
(***************************************************************************)
GetterPool ==
    { Method(s_getTerms, s_oaCollectionOfTerm, <<>>, <<>>, FALSE),
      Method(s_getTerm, s_oaTerm \o <<"*">>, <<>>, <<>>, FALSE),
      Method(s_getTerms, s_oaTerm \o <<" ","*">>, <<s_getTerms \o <<"(","n",")">>>>, <<>>,
             FALSE) }

BuildRelPool == {r_NetTermsMany, r_NetTermSingle, r_NetPinSingle, r_TermNetOwner}

BuildYamlDirs ==
    { [n \in S |-> [module |-> "design", parsed |-> TRUE,
                    info |-> ApiInfo(<<>>, <<>>, IF n = s_oaNet THEN ms ELSE <<>>)]] :
        S \in SUBSET {s_oaNet, s_oaTerm}, ms \in SeqsUpTo(GetterPool, MaxGetters) }

BuildSchemaDirs ==
    { <<SchemaFile("d1_imagemap.json", TRUE, [n \in S |-> UmlInfo(<<>>, <<>>)], rels)>> :
        S \in {{s_oaNet, s_oaTerm}, {s_oaNet}}, rels \in SeqsUpTo(BuildRelPool, MaxRels) }

(***************************************************************************)
(* State.                                                                  *)
(***************************************************************************)
VARIABLES
    \* merge_methods, step by step
    api_methods,        \* the argument api_methods, as passed
    uml_methods,        \* the argument uml_methods, as passed
    m_pc,               \* "api" | "uml" | "done": the loop merge_methods is in
    m_i,                \* the index of the next method of the list being scanned
    m_st,               \* merged_methods and method_map
    m_result,           \* the returned list (<<>> until the return)
    \* the files
    yaml_dir,           \* the API records, by class name
    schema_files,       \* the UML diagram files, in glob order
    output_dir,         \* <output_dir>/<class_name>.json, by class name
    \* process_all_classes / process_class
    f_pc,               \* "start" | "loop" | "done" | "raised" | "one_done" | "one_raised"
    class_names,        \* the sorted names of get_all_class_names
    f_i,                \* the index of the next name of the loop
    processed_classes,  \* the counter of line 385
    f_returned,         \* the last call of process_class: its name and outcome
    \* build_enhanced_domain_ontology
    b_pc,               \* "load" | "nodes" | "rels" | "methods" | "summary" | "done" | "raised"
    crossref_data,      \* the loaded records, by class name
    b_order,            \* the iteration order of crossref_data
    b_c,                \* the index in b_order of the class being visited
    b_r,                \* the index of its next relationship
    b_m,                \* the index of its next method
    nodes,              \* the nodes of domain_graph with their attributes
    graph,              \* the edges of domain_graph and the two counters
    \* the two merges of one pair of method lists
    o_api,              \* the API method list
    o_uml,              \* the UML method list
    o_api_first,        \* <<result>> of merge_methods, <<>> before the call
    o_uml_first,        \* <<result>> of the by-name merge, <<>> before the call
    \* the two infer_attributes_from_methods, step by step
    ia_methods,         \* the methods of the class
    ia_declared,        \* the declared attributes of the merged record
    xa_k,               \* crossref: index of the next method, 0 once returned
    attributes_map,     \* crossref: attributes_map
    da_k,               \* extractor: index of the next method, 0 once returned
    attributes,         \* extractor: attributes
    \* build_domain_ontology
    yaml_files,         \* the class records of yaml_dir, by class name
    dg_order,           \* the order of os.listdir
    dg_pc,              \* "load" | "relationships" | "inherit" | "done"
    dg_i,               \* the index of the next file or inheritance edge
    domain_nodes,       \* domain_graph: the nodes with domain and concept
    domain_links,       \* domain_graph: the edges added by the third pass
    sw_graph,           \* sw_graph: the nodes in insertion order, and their parents
    \* UMLAPIXReferencer.clean_description applied to its own result
    cd_pc,              \* "idle" | "input" | "once" | "twice"
    cd_text,            \* the description passed in
    cd_once,            \* clean_description(cd_text)
    cd_twice,           \* clean_description(cd_once)
    \* ensure_prerequisites
    dp_table,           \* COMMAND_DEPENDENCIES
    dp_top,             \* the command of the top-level call
    dp_files,           \* the files that exist
    visit_history,      \* visit_history, shared by all the calls
    dp_stack,           \* the calls in progress, the innermost last
    dp_ret,             \* <<>>, or <<v>> once the call that ended last returned v
    dp_runs,            \* the commands run_command has executed, in order
    dp_circular,        \* a circular dependency has been reported
    dp_failed           \* a run_command has returned False

mergeVars == <<api_methods, uml_methods, m_pc, m_i, m_st, m_result>>
fileVars == <<yaml_dir, schema_files, output_dir>>
fusionVars == <<f_pc, class_names, f_i, processed_classes, f_returned>>
buildVars == <<b_pc, crossref_data, b_order, b_c, b_r, b_m, nodes, graph>>
orderVars == <<o_api, o_uml, o_api_first, o_uml_first>>
inferVars == <<ia_methods, ia_declared, xa_k, attributes_map, da_k, attributes>>
domainVars == <<yaml_files, dg_order, dg_pc, dg_i, domain_nodes, domain_links, sw_graph>>
cleanVars == <<cd_pc, cd_text, cd_once, cd_twice>>
depVars == <<dp_table, dp_top, dp_files, visit_history, dp_stack, dp_ret, dp_runs,
             dp_circular, dp_failed>>
vars == <<mergeVars, fileVars, fusionVars, buildVars, orderVars, inferVars, domainVars,
          cleanVars, depVars>>

NoCall == [class_name |-> <<>>, raised |-> FALSE, result |-> <<>>]

MergeIdle ==
    /\ api_methods = <<>>
    /\ uml_methods = <<>>
    /\ m_pc = "idle"
    /\ m_i = 0
    /\ m_st = EmptyMerge
    /\ m_result = <<>>

FusionIdle ==
    /\ f_pc = "idle"
    /\ class_names = <<>>
    /\ f_i = 0
    /\ processed_classes = 0
    /\ f_returned = NoCall

\* nx.DiGraph(): the nodes in insertion order, each with its successors in
\* insertion order
EmptySwGraph == [order |-> <<>>, adj |-> <<>>]

OrderIdle ==
    /\ o_api = <<>>
    /\ o_uml = <<>>
    /\ o_api_first = <<>>
    /\ o_uml_first = <<>>

InferIdle ==
    /\ ia_methods = <<>>
    /\ ia_declared = <<>>
    /\ xa_k = 0
    /\ attributes_map = <<>>
    /\ da_k = 0
    /\ attributes = <<>>

DomainIdle ==
    /\ yaml_files = <<>>
    /\ dg_order = <<>>
    /\ dg_pc = "idle"
    /\ dg_i = 0
    /\ domain_nodes = <<>>
    /\ domain_links = {}
    /\ sw_graph = EmptySwGraph

CleanIdle ==
    /\ cd_pc = "idle"
    /\ cd_text = <<>>
    /\ cd_once = <<>>
    /\ cd_twice = <<>>

DepsIdle ==
    /\ dp_table = <<>>
    /\ dp_top = <<>>
    /\ dp_files = {}
    /\ visit_history = {}
    /\ dp_stack = <<>>
    /\ dp_ret = <<>>
    /\ dp_runs = <<>>
    /\ dp_circular = FALSE
    /\ dp_failed = FALSE

LaterIdle == OrderIdle /\ InferIdle /\ DomainIdle /\ CleanIdle /\ DepsIdle

BuildIdle ==
    /\ b_pc = "idle"
    /\ crossref_data = <<>>
    /\ b_order = <<>>
    /\ b_c = 0
    /\ b_r = 0
    /\ b_m = 0
    /\ nodes = <<>>
    /\ graph = EmptyGraph

(***************************************************************************)
(* merge_methods as a state machine: one action per loop iteration.        *)
(***************************************************************************)
MergeInit ==
    /\ api_methods \in SeqsUpTo(ApiMethodPool, MaxApiMethods)
    /\ uml_methods \in SeqsUpTo(UmlMethodPool, MaxUmlMethods)
    /\ m_pc = "api"
    /\ m_i = 1
    /\ m_st = EmptyMerge
    /\ m_result = <<>>
    /\ yaml_dir = <<>> /\ schema_files = <<>> /\ output_dir = <<>>
    /\ FusionIdle
    /\ BuildIdle
    /\ LaterIdle

\* lines 103-128: one iteration of `for method in api_methods`
MergeApiStep ==
    /\ m_pc = "api"
    /\ m_i <= Len(api_methods)
    /\ m_st' = merge_api_method(m_st, api_methods[m_i])
    /\ m_i' = m_i + 1
    /\ UNCHANGED <<api_methods, uml_methods, m_pc, m_result>>
    /\ UNCHANGED <<fileVars, fusionVars, buildVars, orderVars, inferVars, domainVars, cleanVars, depVars>>

\* the API scan is over: on to line 131
MergeApiEnd ==
    /\ m_pc = "api"
    /\ m_i > Len(api_methods)
    /\ m_pc' = "uml"
    /\ m_i' = 1
    /\ UNCHANGED <<api_methods, uml_methods, m_st, m_result>>
    /\ UNCHANGED <<fileVars, fusionVars, buildVars, orderVars, inferVars, domainVars, cleanVars, depVars>>

\* lines 131-163: one iteration of `for method in uml_methods`
MergeUmlStep ==
    /\ m_pc = "uml"
    /\ m_i <= Len(uml_methods)
    /\ m_st' = merge_uml_method(m_st, uml_methods[m_i])
    /\ m_i' = m_i + 1
    /\ UNCHANGED <<api_methods, uml_methods, m_pc, m_result>>
    /\ UNCHANGED <<fileVars, fusionVars, buildVars, orderVars, inferVars, domainVars, cleanVars, depVars>>

\* line 166: the sorted list is returned
MergeReturn ==
    /\ m_pc = "uml"
    /\ m_i > Len(uml_methods)
    /\ m_result' = SortByName(m_st.merged_methods)
    /\ m_pc' = "done"
    /\ UNCHANGED <<api_methods, uml_methods, m_i, m_st>>
    /\ UNCHANGED <<fileVars, fusionVars, buildVars, orderVars, inferVars, domainVars, cleanVars, depVars>>

MergeNext == MergeApiStep \/ MergeApiEnd \/ MergeUmlStep \/ MergeReturn

SpecMerge == MergeInit /\ [][MergeNext]_vars

(***************************************************************************)
(* process_all_classes (and the single process_class of run_crossref.py)   *)
(* as a state machine: one action per class.                               *)
(***************************************************************************)
FusionInit ==
    /\ yaml_dir \in FusionYamlDirs
    /\ schema_files \in FusionSchemaDirs
    /\ output_dir = <<>>
    /\ f_pc = "start"
    /\ class_names = <<>>
    /\ f_i = 0
    /\ processed_classes = 0
    /\ f_returned = NoCall
    /\ MergeIdle
    /\ BuildIdle
    /\ LaterIdle

\* json.dump(merged_info, <output_dir>/<class_name>.json)
WriteOutput(dir, class_name, merged_info) ==
    [n \in (DOMAIN dir) \cup {class_name} |-> IF n = class_name THEN merged_info ELSE dir[n]]

\* lines 380-382: get_all_class_names
FusionGetNames ==
    /\ f_pc = "start"
    /\ class_names' = get_all_class_names(yaml_dir, schema_files)
    /\ f_i' = 1
    /\ f_pc' = "loop"
    /\ UNCHANGED <<processed_classes, f_returned>>
    /\ UNCHANGED <<mergeVars, fileVars, buildVars, orderVars, inferVars, domainVars, cleanVars, depVars>>

\* lines 386-388: one iteration of `for class_name in class_names`; an
\* exception of process_class is not caught and ends process_all_classes
FusionProcessClass ==
    /\ f_pc = "loop"
    /\ f_i <= Len(class_names)
    /\ LET class_name == class_names[f_i]
           r == process_class(yaml_dir, schema_files, class_name)
       IN /\ f_returned' = [class_name |-> class_name, raised |-> r.raised,
                            result |-> r.result]
          /\ IF r.raised
             THEN /\ f_pc' = "raised"
                  /\ UNCHANGED <<output_dir, f_i, processed_classes>>
             ELSE /\ f_pc' = f_pc
                  /\ f_i' = f_i + 1
                  /\ IF r.result # <<>>
                     THEN /\ output_dir' = WriteOutput(output_dir, class_name, r.result[1])
                          /\ processed_classes' = processed_classes + 1
                     ELSE UNCHANGED <<output_dir, processed_classes>>
    /\ UNCHANGED <<class_names, yaml_dir, schema_files>>
    /\ UNCHANGED <<mergeVars, buildVars, orderVars, inferVars, domainVars, cleanVars, depVars>>

\* lines 390-391
FusionReturn ==
    /\ f_pc = "loop"
    /\ f_i > Len(class_names)
    /\ f_pc' = "done"
    /\ UNCHANGED <<class_names, f_i, processed_classes, f_returned>>
    /\ UNCHANGED <<mergeVars, fileVars, buildVars, orderVars, inferVars, domainVars, cleanVars, depVars>>

\* scripts/run_crossref.py line 66: process_class for one name given by the caller
FusionProcessOne ==
    /\ f_pc = "start"
    /\ \E class_name \in ClassNamePool :
         LET r == process_class(yaml_dir, schema_files, class_name)
         IN /\ f_returned' = [class_name |-> class_name, raised |-> r.raised,
                              result |-> r.result]
            /\ f_pc' = IF r.raised THEN "one_raised" ELSE "one_done"
            /\ output_dir' = IF ~r.raised /\ r.result # <<>>
                             THEN WriteOutput(output_dir, class_name, r.result[1])
                             ELSE output_dir
    /\ UNCHANGED <<class_names, f_i, processed_classes, yaml_dir, schema_files>>
    /\ UNCHANGED <<mergeVars, buildVars, orderVars, inferVars, domainVars, cleanVars, depVars>>

FusionNext == FusionGetNames \/ FusionProcessClass \/ FusionReturn \/ FusionProcessOne

SpecFusion == FusionInit /\ [][FusionNext]_vars

(***************************************************************************)
(* build_enhanced_domain_ontology as a state machine: the load, one action *)
(* per node, per UML relationship and per method, and the summary.         *)
(***************************************************************************)
\* the files a complete process_all_classes leaves in the crossref directory
CrossrefFiles(ydir, sfiles) ==
    LET emitted == { n \in ClassNamePool : process_class(ydir, sfiles, n).result # <<>> }
    IN [n \in emitted |-> process_class(ydir, sfiles, n).result[1]]

BuildInit ==
    /\ yaml_dir \in BuildYamlDirs
    /\ schema_files \in BuildSchemaDirs
    /\ output_dir = CrossrefFiles(yaml_dir, schema_files)
    /\ b_pc = "load"
    /\ crossref_data = <<>>
    /\ b_order = <<>>
    /\ b_c = 0
    /\ b_r = 0
    /\ b_m = 0
    /\ nodes = <<>>
    /\ graph = EmptyGraph
    /\ MergeIdle
    /\ FusionIdle
    /\ LaterIdle

\* load_crossreferenced_data: the dict is filled in glob order, which the
\* file system chooses
BuildLoad ==
    /\ b_pc = "load"
    /\ crossref_data' = output_dir
    /\ b_order' \in Orders(DOMAIN output_dir)
    /\ b_c' = 1
    /\ b_pc' = "nodes"
    /\ UNCHANGED <<b_r, b_m, nodes, graph>>
    /\ UNCHANGED <<mergeVars, fileVars, fusionVars, orderVars, inferVars, domainVars, cleanVars, depVars>>

\* lines 119-129: one iteration of the first pass
BuildAddNode ==
    /\ b_pc = "nodes"
    /\ b_c <= Len(b_order)
    /\ LET class_name == b_order[b_c]
       IN nodes' = [n \in (DOMAIN nodes) \cup {class_name} |->
                       IF n = class_name
                       THEN NodeAttributes(class_name, crossref_data[class_name])
                       ELSE nodes[n]]
    /\ b_c' = b_c + 1
    /\ UNCHANGED <<b_pc, crossref_data, b_order, b_r, b_m, graph>>
    /\ UNCHANGED <<mergeVars, fileVars, fusionVars, orderVars, inferVars, domainVars, cleanVars, depVars>>

\* a builder that starts the second pass as soon as one class is a node
BuildNodesDone_AfterFirstNode ==
    /\ b_pc = "nodes"
    /\ b_c > 1 \/ b_c > Len(b_order)
    /\ b_c' = 1
    /\ b_r' = 1
    /\ b_pc' = IF Len(b_order) >= 1 THEN "rels" ELSE "summary"
    /\ UNCHANGED <<crossref_data, b_order, b_m, nodes, graph>>
    /\ UNCHANGED <<mergeVars, fileVars, fusionVars, orderVars, inferVars, domainVars, cleanVars, depVars>>

\* the first pass is over: the second pass starts with the first class
BuildNodesDone ==
    /\ b_pc = "nodes"
    /\ b_c > Len(b_order)
    /\ b_c' = 1
    /\ b_r' = 1
    /\ b_pc' = IF Len(b_order) >= 1 THEN "rels" ELSE "summary"
    /\ UNCHANGED <<crossref_data, b_order, b_m, nodes, graph>>
    /\ UNCHANGED <<mergeVars, fileVars, fusionVars, orderVars, inferVars, domainVars, cleanVars, depVars>>

\* lines 145-168: one iteration of `for rel in data.get('relationships', [])`
BuildUmlRel ==
    /\ b_pc = "rels"
    /\ b_r <= Len(crossref_data[b_order[b_c]].relationships)
    /\ graph' = IF b_order[b_c] \in DOMAIN nodes
                THEN add_uml_relationship(graph, DOMAIN nodes,
                                          crossref_data[b_order[b_c]].relationships[b_r])
                ELSE graph
    /\ b_r' = b_r + 1
    /\ UNCHANGED <<b_pc, crossref_data, b_order, b_c, b_m, nodes>>
    /\ UNCHANGED <<mergeVars, fileVars, fusionVars, orderVars, inferVars, domainVars, cleanVars, depVars>>

\* the relationships of the class are done: on to its methods (line 172)
BuildUmlRelsDone ==
    /\ b_pc = "rels"
    /\ b_r > Len(crossref_data[b_order[b_c]].relationships)
    /\ b_m' = 1
    /\ b_pc' = "methods"
    /\ UNCHANGED <<crossref_data, b_order, b_c, b_r, nodes, graph>>
    /\ UNCHANGED <<mergeVars, fileVars, fusionVars, orderVars, inferVars, domainVars, cleanVars, depVars>>

\* lines 174-222: one iteration of `for method in data.get('methods', [])`
BuildInferMethod ==
    /\ b_pc = "methods"
    /\ b_m <= Len(crossref_data[b_order[b_c]].methods)
    /\ graph' = IF b_order[b_c] \in DOMAIN nodes
                THEN infer_relationship(graph, DOMAIN nodes, b_order[b_c],
                                        crossref_data[b_order[b_c]].methods[b_m])
                ELSE graph
    /\ b_m' = b_m + 1
    /\ UNCHANGED <<b_pc, crossref_data, b_order, b_c, b_r, nodes>>
    /\ UNCHANGED <<mergeVars, fileVars, fusionVars, orderVars, inferVars, domainVars, cleanVars, depVars>>

\* the class is done: the next class, or the summary after the last
BuildNextClass ==
    /\ b_pc = "methods"
    /\ b_m > Len(crossref_data[b_order[b_c]].methods)
    /\ b_c' = b_c + 1
    /\ b_r' = 1
    /\ b_pc' = IF b_c + 1 <= Len(b_order) THEN "rels" ELSE "summary"
    /\ UNCHANGED <<crossref_data, b_order, b_m, nodes, graph>>
    /\ UNCHANGED <<mergeVars, fileVars, fusionVars, orderVars, inferVars, domainVars, cleanVars, depVars>>

\* lines 224-238: the totals and the printed shares.  Line 232 divides by
\* total_relationships once per counted type, line 235 by total_crossref:
\* a ZeroDivisionError when the divisor is 0
BuildSummary ==
    /\ b_pc = "summary"
    /\ LET total_relationships == SumCounts(graph.relationship_counts)
           total_crossref == graph.source_counts.uml_only + graph.source_counts.api_inferred
       IN /\ graph' = [graph EXCEPT !.source_counts.crossref = total_crossref]
          /\ b_pc' = IF (DOMAIN graph.relationship_counts # {} /\ total_relationships = 0)
                        \/ total_crossref = 0
                     THEN "raised" ELSE "done"
    /\ UNCHANGED <<crossref_data, b_order, b_c, b_r, b_m, nodes>>
    /\ UNCHANGED <<mergeVars, fileVars, fusionVars, orderVars, inferVars, domainVars, cleanVars, depVars>>

BuildNext ==
    \/ BuildLoad
    \/ BuildAddNode
    \/ BuildNodesDone
    \/ BuildUmlRel
    \/ BuildUmlRelsDone
    \/ BuildInferMethod
    \/ BuildNextClass
    \/ BuildSummary

SpecBuild == BuildInit /\ [][BuildNext]_vars

(***************************************************************************)
(* The two merges applied to one pair of method lists.                     *)
(***************************************************************************)
OrderInit ==
    /\ o_api \in SeqsUpTo(ApiMethodPool, MaxApiMethods)
    /\ o_uml \in SeqsUpTo(UmlMethodPool, MaxUmlMethods)
    /\ o_api_first = <<>>
    /\ o_uml_first = <<>>
    /\ yaml_dir = <<>> /\ schema_files = <<>> /\ output_dir = <<>>
    /\ MergeIdle
    /\ FusionIdle
    /\ BuildIdle
    /\ InferIdle
    /\ DomainIdle
    /\ CleanIdle
    /\ DepsIdle

\* oa_ontology/crossref_api_uml.py: merge_methods scans the API list first
OrderApiFirst ==
    /\ o_api_first = <<>>
    /\ o_api_first' = <<merge_methods(o_api, o_uml)>>
    /\ UNCHANGED <<o_api, o_uml, o_uml_first>>
    /\ UNCHANGED <<mergeVars, fileVars, fusionVars, buildVars, inferVars, domainVars, cleanVars, depVars>>

\* src/crossref_api_uml.py: merge_class_info scans the UML list first
OrderUmlFirst ==
    /\ o_uml_first = <<>>
    /\ o_uml_first' =
          <<script_merge_class_info(
                <<[methods |-> o_uml, attributes |-> <<>>]>>,
                <<ApiInfo(<<>>, <<>>, o_api)>>)[1].methods>>
    /\ UNCHANGED <<o_api, o_uml, o_api_first>>
    /\ UNCHANGED <<mergeVars, fileVars, fusionVars, buildVars, inferVars, domainVars, cleanVars, depVars>>

OrderNext == OrderApiFirst \/ OrderUmlFirst

SpecOrder == OrderInit /\ [][OrderNext]_vars

(***************************************************************************)
(* The two infer_attributes_from_methods, one method at a time.            *)
(***************************************************************************)
\* lines 215-217 of crossref_api_uml.py and line 283 of html_doc_extractor.py
InferInit ==
    /\ ia_methods \in SeqsUpTo(InferMethodPool, MaxInferMethods)
    /\ ia_declared \in SeqsUpTo(DeclaredAttributePool, MaxDeclared)
    /\ xa_k = 1
    /\ attributes_map = AttributesMap(ia_declared)
    /\ da_k = 1
    /\ attributes = <<>>
    /\ yaml_dir = <<>> /\ schema_files = <<>> /\ output_dir = <<>>
    /\ MergeIdle
    /\ FusionIdle
    /\ BuildIdle
    /\ OrderIdle
    /\ DomainIdle
    /\ CleanIdle
    /\ DepsIdle

\* crossref_api_uml.py lines 225-268: one iteration
XrefInferStep ==
    /\ xa_k \in 1..Len(ia_methods)
    /\ attributes_map' = infer_from_method(attributes_map, ia_methods[xa_k])
    /\ xa_k' = xa_k + 1
    /\ UNCHANGED <<ia_methods, ia_declared, da_k, attributes>>
    /\ UNCHANGED <<mergeVars, fileVars, fusionVars, buildVars, orderVars, domainVars, cleanVars, depVars>>

\* crossref_api_uml.py lines 271-272
XrefInferReturn ==
    /\ xa_k = Len(ia_methods) + 1
    /\ xa_k' = 0
    /\ UNCHANGED <<ia_methods, ia_declared, attributes_map, da_k, attributes>>
    /\ UNCHANGED <<mergeVars, fileVars, fusionVars, buildVars, orderVars, domainVars, cleanVars, depVars>>

\* html_doc_extractor.py lines 286-321: one iteration
DocInferStep ==
    /\ da_k \in 1..Len(ia_methods)
    /\ attributes' = doc_infer_from_method(attributes, ia_methods[da_k])
    /\ da_k' = da_k + 1
    /\ UNCHANGED <<ia_methods, ia_declared, xa_k, attributes_map>>
    /\ UNCHANGED <<mergeVars, fileVars, fusionVars, buildVars, orderVars, domainVars, cleanVars, depVars>>

\* html_doc_extractor.py line 324
DocInferReturn ==
    /\ da_k = Len(ia_methods) + 1
    /\ da_k' = 0
    /\ UNCHANGED <<ia_methods, ia_declared, xa_k, attributes_map, attributes>>
    /\ UNCHANGED <<mergeVars, fileVars, fusionVars, buildVars, orderVars, domainVars, cleanVars, depVars>>

InferNext == XrefInferStep \/ XrefInferReturn \/ DocInferStep \/ DocInferReturn

SpecInfer == InferInit /\ [][InferNext]_vars

(***************************************************************************)
(* extract_domain_ontology.py: build_domain_ontology.                      *)
(***************************************************************************)
\* DiGraph.add_node: a new node goes last
sw_add_node(g, n) ==
    IF n \in DOMAIN g.adj THEN g
    ELSE [order |-> Append(g.order, n),
          adj |-> [m \in (DOMAIN g.adj) \cup {n} |-> IF m = n THEN <<>> ELSE g.adj[m]]]

\* DiGraph.add_edge(u, v): both nodes are added, the edge is kept once
sw_add_edge(g, u, v) ==
    LET h == sw_add_node(sw_add_node(g, u), v)
    IN IF \E k \in 1..Len(h.adj[u]) : h.adj[u][k] = v THEN h
       ELSE [h EXCEPT !.adj[u] = Append(@, v)]

\* lines 159-160: the inheritance edges of one class
RECURSIVE sw_add_parents(_, _, _)
sw_add_parents(g, class_name, parents) ==
    IF parents = <<>> THEN g
    ELSE sw_add_parents(sw_add_edge(g, class_name, Head(parents)), class_name, Tail(parents))

\* list(sw_graph.edges(data=True)): node by node, in insertion order
RECURSIVE SwEdgesFrom(_, _)
SwEdgesFrom(g, k) ==
    IF k > Len(g.order) THEN <<>>
    ELSE [j \in 1..Len(g.adj[g.order[k]]) |-> <<g.order[k], g.adj[g.order[k]][j]>>]
         \o SwEdgesFrom(g, k + 1)

SwEdges(g) == SwEdgesFrom(g, 1)

DomainInit ==
    /\ yaml_files \in DomainYamlDirs
    /\ dg_order \in Orders(DOMAIN yaml_files)
    /\ dg_pc = "load"
    /\ dg_i = 1
    /\ domain_nodes = <<>>
    /\ domain_links = {}
    /\ sw_graph = EmptySwGraph
    /\ yaml_dir = <<>> /\ schema_files = <<>> /\ output_dir = <<>>
    /\ MergeIdle
    /\ FusionIdle
    /\ BuildIdle
    /\ OrderIdle
    /\ InferIdle
    /\ CleanIdle
    /\ DepsIdle

\* lines 133-160: one file of the first pass
DomainLoadClass ==
    /\ dg_pc = "load"
    /\ dg_i <= Len(dg_order)
    /\ LET class_name == dg_order[dg_i]
           t == extract_domain_type(class_name)
       IN /\ domain_nodes' =
                [n \in (DOMAIN domain_nodes) \cup {class_name} |->
                    IF n = class_name THEN [domain |-> t.domain, concept |-> t.concept]
                    ELSE domain_nodes[n]]
          /\ sw_graph' = sw_add_parents(sw_add_node(sw_graph, class_name), class_name,
                                        yaml_files[class_name].inheritance)
    /\ dg_i' = dg_i + 1
    /\ UNCHANGED <<yaml_files, dg_order, dg_pc, domain_links>>
    /\ UNCHANGED <<mergeVars, fileVars, fusionVars, buildVars, orderVars, inferVars, cleanVars, depVars>>

\* lines 166-172: the second pass skips every record without a 'methods' key
DomainSkipRelationships ==
    /\ dg_pc = "load"
    /\ dg_i > Len(dg_order)
    /\ dg_pc' = "inherit"
    /\ dg_i' = 1
    /\ UNCHANGED <<yaml_files, dg_order, domain_nodes, domain_links, sw_graph>>
    /\ UNCHANGED <<mergeVars, fileVars, fusionVars, buildVars, orderVars, inferVars, cleanVars, depVars>>

\* a third pass that starts over after an edge that closes an inheritance
\* cycle, instead of taking each edge of the list once
DomainInheritStep_Rescan ==
    /\ dg_pc = "inherit"
    /\ dg_i <= Len(SwEdges(sw_graph))
    /\ LET source == SwEdges(sw_graph)[dg_i][1]
           target == SwEdges(sw_graph)[dg_i][2]
       IN /\ IF source \in DOMAIN domain_nodes /\ target \in DOMAIN domain_nodes
             THEN domain_links' = domain_links \cup {<<source, target>>}
             ELSE UNCHANGED domain_links
          /\ dg_i' = IF \E k \in 1..Len(SwEdges(sw_graph)) :
                            SwEdges(sw_graph)[k] = <<target, source>>
                     THEN 1 ELSE dg_i + 1
    /\ UNCHANGED <<yaml_files, dg_order, dg_pc, sw_graph, domain_nodes>>
    /\ UNCHANGED <<mergeVars, fileVars, fusionVars, buildVars, orderVars, inferVars, cleanVars, depVars>>

\* lines 202-214: one INHERITS_FROM edge of the third pass; .get('domain')
\* is falsy for a missing or empty value only
DomainInheritStep ==
    /\ dg_pc = "inherit"
    /\ dg_i <= Len(SwEdges(sw_graph))
    /\ LET source == SwEdges(sw_graph)[dg_i][1]
           target == SwEdges(sw_graph)[dg_i][2]
       IN IF source \in DOMAIN domain_nodes /\ target \in DOMAIN domain_nodes
          THEN /\ domain_nodes' =
                    [domain_nodes EXCEPT
                        ![source].domain =
                            IF @ = "" /\ domain_nodes[target].domain # ""
                            THEN domain_nodes[target].domain ELSE @,
                        ![source].concept =
                            IF @ = <<>> /\ domain_nodes[target].concept # <<>>
                            THEN domain_nodes[target].concept ELSE @]
               /\ domain_links' = domain_links \cup {<<source, target>>}
          ELSE UNCHANGED <<domain_nodes, domain_links>>
    /\ dg_i' = dg_i + 1
    /\ UNCHANGED <<yaml_files, dg_order, dg_pc, sw_graph>>
    /\ UNCHANGED <<mergeVars, fileVars, fusionVars, buildVars, orderVars, inferVars, cleanVars, depVars>>

\* line 216
DomainReturn ==
    /\ dg_pc = "inherit"
    /\ dg_i > Len(SwEdges(sw_graph))
    /\ dg_pc' = "done"
    /\ UNCHANGED <<yaml_files, dg_order, dg_i, domain_nodes, domain_links, sw_graph>>
    /\ UNCHANGED <<mergeVars, fileVars, fusionVars, buildVars, orderVars, inferVars, cleanVars, depVars>>

DomainNext == DomainLoadClass \/ DomainSkipRelationships \/ DomainInheritStep \/ DomainReturn

SpecDomain == DomainInit /\ [][DomainNext]_vars

\* a step of the function that has not returned: every action of DomainNext
\* moves the position <<dg_pc, dg_i>>, and one of them is enabled at every
\* position but "done"
DomainAdvance ==
    /\ dg_pc # "done"
    /\ \E pc \in {"load", "inherit", "done"}, i \in 1..(2 * MaxDomainFiles + 2) :
          /\ <<pc, i>> # <<dg_pc, dg_i>>
          /\ dg_pc' = pc
          /\ dg_i' = i

\* the function is sequential code: it always takes its next step
SpecDomainFair == SpecDomain /\ WF_<<dg_pc, dg_i>>(DomainAdvance)

(***************************************************************************)
(* UMLAPIXReferencer.clean_description applied to a description, and to    *)
(* its own result.                                                         *)
(***************************************************************************)
CleanInit ==
    /\ cd_pc = "input"
    /\ cd_text \in { Concat(ts) : ts \in SeqsUpTo(TokenPool, MaxTokens) }
    /\ cd_once = <<>>
    /\ cd_twice = <<>>
    /\ yaml_dir = <<>> /\ schema_files = <<>> /\ output_dir = <<>>
    /\ MergeIdle
    /\ FusionIdle
    /\ BuildIdle
    /\ OrderIdle
    /\ InferIdle
    /\ DomainIdle
    /\ DepsIdle

CleanOnce ==
    /\ cd_pc = "input"
    /\ cd_once' = clean_description(cd_text)
    /\ cd_pc' = "once"
    /\ UNCHANGED <<cd_text, cd_twice>>
    /\ UNCHANGED <<mergeVars, fileVars, fusionVars, buildVars, orderVars, inferVars,
                   domainVars, depVars>>

CleanTwice ==
    /\ cd_pc = "once"
    /\ cd_twice' = clean_description(cd_once)
    /\ cd_pc' = "twice"
    /\ UNCHANGED <<cd_text, cd_once>>
    /\ UNCHANGED <<mergeVars, fileVars, fusionVars, buildVars, orderVars, inferVars,
                   domainVars, depVars>>

CleanNext == CleanOnce \/ CleanTwice

SpecClean == CleanInit /\ [][CleanNext]_vars

(***************************************************************************)
(* cli_dependencies.py: ensure_prerequisites and run_command.              *)
(***************************************************************************)
DepsInit ==
    /\ dp_table \in DependencyTables
    /\ dp_top \in DOMAIN COMMAND_OUTPUT_FILES
    /\ dp_files \in SUBSET UNION { OutputFiles(k) : k \in Reach(dp_table, {dp_top}) }
    /\ visit_history = {}
    /\ dp_stack = <<[key |-> dp_top, i |-> 0, pc |-> "enter"]>>
    /\ dp_ret = <<>>
    /\ dp_runs = <<>>
    /\ dp_circular = FALSE
    /\ dp_failed = FALSE
    /\ yaml_dir = <<>> /\ schema_files = <<>> /\ output_dir = <<>>
    /\ MergeIdle
    /\ FusionIdle
    /\ BuildIdle
    /\ OrderIdle
    /\ InferIdle
    /\ DomainIdle
    /\ CleanIdle

\* the innermost call in progress, and the prerequisite its loop is at
DepsCall == dp_stack[Len(dp_stack)]
DepsPrereq == Prerequisites(dp_table, DepsCall.key)[DepsCall.i]

\* `return v` of the innermost call
DepsReturn(v) ==
    /\ dp_stack' = SubSeq(dp_stack, 1, Len(dp_stack) - 1)
    /\ dp_ret' = <<v>>

\* the innermost call moves to position pc with loop index i
DepsGoto(pc, i) ==
    /\ dp_stack' = [dp_stack EXCEPT ![Len(dp_stack)] = [key |-> @.key, i |-> i, pc |-> pc]]
    /\ dp_ret' = <<>>

\* a call that keeps no visit history
DepsEnter_NoHistory ==
    /\ dp_stack # <<>>
    /\ DepsCall.pc = "enter"
    /\ IF Prerequisites(dp_table, DepsCall.key) = <<>> THEN DepsReturn(TRUE)
       ELSE IF check_command_output(dp_files, DepsCall.key) THEN DepsReturn(TRUE)
       ELSE DepsGoto("loop", 1)
    /\ UNCHANGED <<dp_table, dp_top, dp_files, visit_history, dp_runs, dp_circular,
                   dp_failed>>
    /\ UNCHANGED <<mergeVars, fileVars, fusionVars, buildVars, orderVars, inferVars,
                   domainVars, cleanVars>>

\* lines 145-167: the start of a call
DepsEnter ==
    /\ dp_stack # <<>>
    /\ DepsCall.pc = "enter"
    /\ IF DepsCall.key \in visit_history
       THEN /\ dp_circular' = TRUE
            /\ DepsReturn(FALSE)
            /\ UNCHANGED visit_history
       ELSE /\ visit_history' = visit_history \cup {DepsCall.key}
            /\ UNCHANGED dp_circular
            /\ IF Prerequisites(dp_table, DepsCall.key) = <<>> THEN DepsReturn(TRUE)
               ELSE IF check_command_output(dp_files, DepsCall.key) THEN DepsReturn(TRUE)
               ELSE DepsGoto("loop", 1)
    /\ UNCHANGED <<dp_table, dp_top, dp_files, dp_runs, dp_failed>>
    /\ UNCHANGED <<mergeVars, fileVars, fusionVars, buildVars, orderVars, inferVars,
                   domainVars, cleanVars>>

\* a loop without the test of lines 174-177: a prerequisite whose output
\* exists is ensured and run like a missing one
DepsLoop_NoCompletedTest ==
    /\ dp_stack # <<>>
    /\ DepsCall.pc = "loop"
    /\ IF DepsCall.i > Len(Prerequisites(dp_table, DepsCall.key)) THEN DepsReturn(TRUE)
       ELSE /\ Len(dp_stack) < MaxDepth
            /\ dp_stack' = Append([dp_stack EXCEPT ![Len(dp_stack)].pc = "wait"],
                                  [key |-> DepsPrereq, i |-> 0, pc |-> "enter"])
            /\ dp_ret' = <<>>
    /\ UNCHANGED <<dp_table, dp_top, dp_files, visit_history, dp_runs, dp_circular,
                   dp_failed>>
    /\ UNCHANGED <<mergeVars, fileVars, fusionVars, buildVars, orderVars, inferVars,
                   domainVars, cleanVars>>

\* lines 170-180 and 187: the head of one iteration, up to the recursive
\* call; the stack of calls is capped at MaxDepth
DepsLoop ==
    /\ dp_stack # <<>>
    /\ DepsCall.pc = "loop"
    /\ IF DepsCall.i > Len(Prerequisites(dp_table, DepsCall.key)) THEN DepsReturn(TRUE)
       ELSE IF check_command_output(dp_files, DepsPrereq)
       THEN DepsGoto("loop", DepsCall.i + 1)
       ELSE /\ Len(dp_stack) < MaxDepth
            /\ dp_stack' = Append([dp_stack EXCEPT ![Len(dp_stack)].pc = "wait"],
                                  [key |-> DepsPrereq, i |-> 0, pc |-> "enter"])
            /\ dp_ret' = <<>>
    /\ UNCHANGED <<dp_table, dp_top, dp_files, visit_history, dp_runs, dp_circular,
                   dp_failed>>
    /\ UNCHANGED <<mergeVars, fileVars, fusionVars, buildVars, orderVars, inferVars,
                   domainVars, cleanVars>>

\* a caller that runs the prerequisite whatever the recursive call returned
DepsPrereqReturned_IgnoresResult ==
    /\ dp_stack # <<>>
    /\ DepsCall.pc = "wait"
    /\ dp_ret # <<>>
    /\ DepsGoto("run", DepsCall.i)
    /\ UNCHANGED <<dp_table, dp_top, dp_files, visit_history, dp_runs, dp_circular,
                   dp_failed>>
    /\ UNCHANGED <<mergeVars, fileVars, fusionVars, buildVars, orderVars, inferVars,
                   domainVars, cleanVars>>

\* lines 180-181: the recursive call has returned
DepsPrereqReturned ==
    /\ dp_stack # <<>>
    /\ DepsCall.pc = "wait"
    /\ dp_ret # <<>>
    /\ IF dp_ret[1] THEN DepsGoto("run", DepsCall.i) ELSE DepsReturn(FALSE)
    /\ UNCHANGED <<dp_table, dp_top, dp_files, visit_history, dp_runs, dp_circular,
                   dp_failed>>
    /\ UNCHANGED <<mergeVars, fileVars, fusionVars, buildVars, orderVars, inferVars,
                   domainVars, cleanVars>>

\* lines 184-185 with run_command (101-126): the subprocess ends with some
\* return code, having written its output files or not
DepsRun ==
    /\ dp_stack # <<>>
    /\ DepsCall.pc = "run"
    /\ \E returncode \in {0, 1}, written \in {{}, OutputFiles(DepsPrereq)} :
          /\ dp_files' = dp_files \cup written
          /\ dp_runs' = Append(dp_runs, DepsPrereq)
          /\ IF returncode = 0 /\ check_command_output(dp_files', DepsPrereq)
             THEN /\ DepsGoto("loop", DepsCall.i + 1)
                  /\ UNCHANGED dp_failed
             ELSE /\ DepsReturn(FALSE)
                  /\ dp_failed' = TRUE
    /\ UNCHANGED <<dp_table, dp_top, visit_history, dp_circular>>
    /\ UNCHANGED <<mergeVars, fileVars, fusionVars, buildVars, orderVars, inferVars,
                   domainVars, cleanVars>>

DepsNext == DepsEnter \/ DepsLoop \/ DepsPrereqReturned \/ DepsRun

SpecDeps == DepsInit /\ [][DepsNext]_vars

\* the call is sequential code: it always takes its next step
SpecDepsFair == SpecDeps /\ WF_vars(DepsNext)

(***************************************************************************)
(* Properties of merge_methods.                                            *)
(***************************************************************************)
KeysOf(ms) == { MethodKey(ms[i]) : i \in { j \in 1..Len(ms) : ms[j].name # <<>> } }

\* C1: after merge_methods, no two entries of the returned list share the
\* same (name, signature) key, a missing signature being keyed as name().
C1_NoDuplicateMethodKeys ==
    m_pc = "done" =>
        \A i, j \in 1..Len(m_result) :
            i # j => MethodKey(m_result[i]) # MethodKey(m_result[j])

C9_StepRule ==
    (m_pc = "uml" /\ m_i <= Len(uml_methods) /\ uml_methods[m_i].name # <<>>) =>
        LET u      == uml_methods[m_i]
            before == m_st.merged_methods
            after  == m_st'.merged_methods
        IN IF MethodKey(u) \in KeysOf(before)
           THEN /\ Len(after) = Len(before)
                /\ \E k \in 1..Len(before) :
                      /\ MethodKey(before[k]) = MethodKey(u)
                      /\ after[k].source = "both"
                      /\ after[k].description =
                             IF before[k].description = <<>> THEN u.description
                             ELSE before[k].description
           ELSE /\ Len(after) = Len(before) + 1
                /\ after[Len(after)].source = "uml"
                /\ MethodKey(after[Len(after)]) = MethodKey(u)

C9_BothOnlyIfInBoth ==
    m_pc = "done" =>
        \A i \in 1..Len(m_result) :
            m_result[i].source = "both" =>
                /\ MethodKey(m_result[i]) \in KeysOf(api_methods)
                /\ MethodKey(m_result[i]) \in KeysOf(uml_methods)

\* C9: each UML method whose key already has an entry turns that entry's
\* provenance into 'both' (copying its description only into an empty one),
\* any other UML method is inserted tagged 'uml'; consequently an entry is
\* tagged 'both' only if its key occurs in the API list and in the UML list.
C9_UmlMergeRule == [][C9_StepRule]_vars /\ [](C9_BothOnlyIfInBoth)

OneApiOneUml ==
    /\ m_pc = "done"
    /\ Len(api_methods) = 1
    /\ Len(uml_methods) = 1
    /\ api_methods[1].name # <<>>
    /\ api_methods[1].name = uml_methods[1].name
    /\ api_methods[1].return_type = uml_methods[1].return_type

SingleBoth == Len(m_result) = 1 /\ m_result[1].source = "both"

InParsedSchema(n) ==
    \E k \in 1..Len(schema_files) :
        schema_files[k].parsed /\ n \in DOMAIN schema_files[k].classes

\* the name has a record in at least one source
HasRecord(n) == n \in DOMAIN yaml_dir \/ InParsedSchema(n)

\* C6: process_all_classes emits a Merged Symbol for a name if and only if
\* the name has a record in at least one of the two sources; process_class
\* returns None for a name in neither, without raising and without writing
\* an output.
C6_EmittedIffPresent ==
    /\ f_pc = "done" =>
          \A n \in ClassNamePool : n \in DOMAIN output_dir <=> HasRecord(n)
    /\ (f_returned.class_name # <<>> /\ ~f_returned.raised) =>
          /\ f_returned.result # <<>> <=> HasRecord(f_returned.class_name)
          /\ f_returned.class_name \in DOMAIN output_dir <=> f_returned.result # <<>>
    /\ f_returned.raised => HasRecord(f_returned.class_name)

C6_Witness ==
    /\ f_pc = "done"
    /\ \E a \in DOMAIN output_dir : a \in DOMAIN yaml_dir /\ ~InParsedSchema(a)
    /\ \E u \in DOMAIN output_dir : u \notin DOMAIN yaml_dir /\ InParsedSchema(u)
    /\ \E z \in ClassNamePool : ~HasRecord(z) /\ z \notin DOMAIN output_dir

SomeRecordUnparsable ==
    \/ \E n \in DOMAIN yaml_dir : ~yaml_dir[n].parsed
    \/ \E k \in 1..Len(schema_files) : ~schema_files[k].parsed

HasParsedRecord(n) ==
    (n \in DOMAIN yaml_dir /\ yaml_dir[n].parsed) \/ InParsedSchema(n)

\* C7: when one input record fails to parse, process_all_classes skips it
\* and still emits a Merged Symbol for every other name: the failure never
\* aborts the run.
C7_ParseFailureSkipped ==
    SomeRecordUnparsable =>
        /\ f_pc # "raised"
        /\ f_pc = "done" =>
              \A n \in ClassNamePool : HasParsedRecord(n) => n \in DOMAIN output_dir

(***************************************************************************)
(* Properties of build_enhanced_domain_ontology.                           *)
(***************************************************************************)
\* the declared statements that survive: both endpoints are merged symbols
Declared ==
    { rel \in UNION { { crossref_data[n].relationships[k] :
                          k \in 1..Len(crossref_data[n].relationships) } :
                      n \in DOMAIN crossref_data } :
        rel.source \in DOMAIN crossref_data /\ rel.target \in DOMAIN crossref_data }

\* the edges of the graph
EdgeSet ==
    { [source |-> k[1], target |-> k[2], type |-> graph.edges[k].type,
       member |-> graph.edges[k].member, provenance |-> graph.edges[k].source] :
        k \in DOMAIN graph.edges }

C2_DeclaredPresent ==
    b_pc = "done" =>
        \A rel \in Declared :
            \E e \in EdgeSet :
                /\ e.source = rel.source
                /\ e.target = rel.target
                /\ e.type = UML_TO_DOMAIN(rel.type)
                /\ e.provenance = "uml"

C2_InferenceKeepsDeclared ==
    b_pc = "methods" =>
        \A k \in DOMAIN graph.edges :
            graph.edges[k].source = "uml" => graph'.edges[k] = graph.edges[k]

\* C2: every UML-declared statement whose endpoints are both nodes is still
\* an edge with its mapped type and provenance 'uml' in the built graph:
\* adding an inferred edge never replaces or rewrites a declared edge.
C2_DeclaredNeverOverridden == [][C2_InferenceKeepsDeclared]_vars /\ [](C2_DeclaredPresent)

\* C3: two surviving statements with the same source and target but different
\* types are both present, as distinct edges, in the built graph.
C3_DistinctTypesDistinctEdges ==
    b_pc = "done" =>
        \A r1, r2 \in Declared :
            (/\ r1.source = r2.source
             /\ r1.target = r2.target
             /\ UML_TO_DOMAIN(r1.type) # UML_TO_DOMAIN(r2.type))
            => \E e1, e2 \in EdgeSet :
                  /\ e1.source = r1.source /\ e1.target = r1.target
                  /\ e2.source = r1.source /\ e2.target = r1.target
                  /\ e1.type = UML_TO_DOMAIN(r1.type)
                  /\ e2.type = UML_TO_DOMAIN(r2.type)

\* the provenance of the statement the step adds
StatedBy == IF b_pc = "rels" THEN "uml" ELSE "api_inferred"

C4_Step ==
    \A k \in DOMAIN graph.edges :
        (graph'.edges[k] # graph.edges[k] /\ graph'.edges[k].type = graph.edges[k].type)
        => \A p \in {graph.edges[k].source, StatedBy} : graph'.edges[k].source = p

\* C4: when a statement is added whose (source, target, type) key already has
\* an edge, the one edge of that key records afterwards every source that
\* stated it: the earlier provenance is not overwritten.
C4_ProvenanceAccumulated == [][C4_Step]_vars

\* the claim's reading of "the return type names the symbol t through a
\* pointer or collection marker"
ReturnTypeNames(return_type, t) ==
    \/ Contains(return_type, <<"*">>) /\ TargetClass(return_type) = t
    \/ Contains(return_type, <<"o","a","C","o","l","l","e","c","t","i","o","n","<">>
                                \o t \o <<">">>)

C5_Step ==
    (b_pc = "methods" /\ b_m' = b_m + 1) =>
        LET n == b_order[b_c]
            method == crossref_data[n].methods[b_m]
            member == MemberOfGetter(method.name)
        IN \A t \in (DOMAIN crossref_data) \ {n} :
              (/\ member # <<>>
               /\ ReturnTypeNames(method.return_type, t)
               /\ ~\E rel \in Declared : rel.source = n /\ rel.member = member)
              => /\ <<n, t>> \in DOMAIN graph'.edges
                 /\ graph'.edges[<<n, t>>].source = "api_inferred"
                 /\ graph'.edges[<<n, t>>].type = InferredType(method)
                 /\ graph'.edges[<<n, t>>].member = member

\* C5: for every merged symbol, the step that visits a get<X> whose return type names
\* another known symbol through a pointer or collection marker, and whose
\* member no declared relationship covers leaves in the graph an edge to that
\* symbol tagged api_inferred, CONTAINS_MANY for a collection type or a plural
\* name and CONTAINS_ONE otherwise, with <X> lower-camel-cased as member.
C5_GetterEdgeInferred == [][C5_Step]_vars

\* C8: build_enhanced_domain_ontology runs to completion for every set of
\* merged symbols, also when no relationship survives.
C8_BuildCompletes == b_pc # "raised"

(***************************************************************************)
(* Properties of the Merged Symbols process_class writes.                  *)
(***************************************************************************)
\* the class entries the parsed diagrams hold for the name, in glob order
DiagramEntries(n) ==
    LET idx == { k \in 1..Len(schema_files) :
                    schema_files[k].parsed /\ n \in DOMAIN schema_files[k].classes }
        F[k \in 0..Len(schema_files)] ==
            IF k = 0 THEN <<>>
            ELSE IF k \in idx THEN Append(F[k-1], schema_files[k].classes[n]) ELSE F[k-1]
    IN F[Len(schema_files)]

\* the description the diagrams supply for the name, "" when they supply none
DiagramDescription(n) ==
    LET with == SelectSeq(DiagramEntries(n), LAMBDA e : "description" \in DOMAIN e)
    IN IF with = <<>> THEN <<>> ELSE with[1].description

\* C12: the description of a Merged Symbol is the API record's description
\* (as cleaned) when an API record exists and otherwise the description the
\* UML diagram supplies; a UML-only symbol has sources.api false and
\* sources.uml non-empty, and its description is "" only when the diagram
\* supplied none.
C12_DescriptionApiThenUml ==
    \A n \in DOMAIN output_dir :
        IF n \in DOMAIN yaml_dir
        THEN output_dir[n].description = clean_description(yaml_dir[n].info.description)
        ELSE /\ ~output_dir[n].sources.api
             /\ output_dir[n].sources.uml # <<>>
             /\ output_dir[n].description = clean_description(DiagramDescription(n))

\* the statements of the parsed diagrams that mention the name
Mentions(n, file) ==
    { file.relationships[k] : k \in { j \in 1..Len(file.relationships) :
        file.relationships[j].source = n \/ file.relationships[j].target = n } }

ParsedFiles == { schema_files[k] : k \in { j \in 1..Len(schema_files) : schema_files[j].parsed } }

C13_OnlyOwnOnce(n) ==
    LET rels == output_dir[n].relationships
    IN /\ \A k \in 1..Len(rels) : rels[k].source = n \/ rels[k].target = n
       /\ \A i, j \in 1..Len(rels) : SameTriple(rels[i], rels[j]) => i = j

C13_Holds(n, file) ==
    \A rel \in Mentions(n, file) :
        \E k \in 1..Len(output_dir[n].relationships) :
            SameTriple(output_dir[n].relationships[k], rel)

C14_SourcesExact ==
    \A n \in DOMAIN output_dir :
        LET uml == output_dir[n].sources.uml
        IN /\ output_dir[n].sources.api <=> n \in DOMAIN yaml_dir
           /\ { uml[k] : k \in 1..Len(uml) } =
                  { Basename(SchemaPath(file)) :
                        file \in { f \in ParsedFiles : n \in DOMAIN f.classes } }
           /\ \A i, j \in 1..Len(uml) : uml[i] = uml[j] => i = j

(***************************************************************************)
(* Properties of the two scan orders.                                      *)
(***************************************************************************)
\* every entry of the result under a key of both lists carries the fields of
\* an API method of that key
ApiWins(result) ==
    \A i \in 1..Len(result) :
        (result[i].name # <<>> /\ MethodKey(result[i]) \in KeysOf(o_api) \cap KeysOf(o_uml))
        => \E a \in 1..Len(o_api) :
              /\ o_api[a].name # <<>>
              /\ MethodKey(o_api[a]) = MethodKey(result[i])
              /\ CleanReturnType(result[i].return_type) = CleanReturnType(o_api[a].return_type)
              /\ result[i].signature = o_api[a].signature
              /\ result[i].is_static = o_api[a].is_static
              /\ o_api[a].description # <<>> => result[i].description = o_api[a].description

\* C11: for the same API and UML method lists the (name, signature) keys of
\* the result are the same whichever list is scanned first, and under every
\* key of both lists the surviving entry has the API method's return type,
\* signature, static flag and non-empty description.
C11_ScanOrderApiWins ==
    (o_api_first # <<>> /\ o_uml_first # <<>>) =>
        /\ KeysOf(o_api_first[1]) = KeysOf(o_uml_first[1])
        /\ ApiWins(o_api_first[1])
        /\ ApiWins(o_uml_first[1])

(***************************************************************************)
(* Properties of attribute inference.                                      *)
(***************************************************************************)
\* the list holds <prefix><X> with <x> = attr_name
HasAccessor(prefix, attr_name) ==
    \E k \in 1..Len(ia_methods) :
        IsAccessor(ia_methods[k].name, prefix) /\ AccessorAttr(ia_methods[k].name) = attr_name

\* C15: the flags of an inferred attribute are OR-ed whatever the order of
\* the methods: has_getter iff the list holds get<X>, has_setter iff it holds
\* set<X>, and set<X> alone still yields the attribute <x>.
C15_FlagsOrderIndependent ==
    da_k = 0 =>
        /\ \A k \in 1..Len(attributes) :
              /\ attributes[k].has_getter <=> HasAccessor(<<"g","e","t">>, attributes[k].name)
              /\ attributes[k].has_setter <=> HasAccessor(<<"s","e","t">>, attributes[k].name)
        /\ \A m \in 1..Len(ia_methods) :
              IsAccessor(ia_methods[m].name, <<"s","e","t">>)
              => AttrIndex(attributes, AccessorAttr(ia_methods[m].name)) # {}

C16_Step ==
    /\ \A k \in 1..Len(attributes) :
          attributes[k].type # s_unknown
          => /\ k \in 1..Len(attributes')
             /\ attributes'[k].name = attributes[k].name
             /\ attributes'[k].type = attributes[k].type
    /\ \A k \in 1..Len(attributes_map) :
          attributes_map[k].type \notin {<<>>, <<s_unknown>>}
          => /\ k \in 1..Len(attributes_map')
             /\ attributes_map'[k].name = attributes_map[k].name
             /\ attributes_map'[k].type = attributes_map[k].type

\* C16: once an attribute has a type other than "unknown", no later method
\* of the sequence, a later set<X> in particular, changes that type.
C16_KnownTypeKept == [][C16_Step]_vars

\* a getter typed the attribute and the setter that came later was scanned
C16_Witness ==
    /\ da_k = 0
    /\ \E k \in 1..Len(attributes) :
          /\ attributes[k].has_getter /\ attributes[k].has_setter
          /\ attributes[k].type = s_oaString

VoidOrAbsent(return_type) == return_type = <<>> \/ return_type = s_void

\* C17: get<X> yields the inferred attribute <x>, typed with the return type,
\* only when the return type is not void: an attribute inferred from a getter
\* has a getter of that name with a non-void return type, which is its type.
C17_NoAttributeFromVoidGetter ==
    xa_k = 0 =>
        \A k \in 1..Len(attributes_map) :
            (attributes_map[k].inferred
             /\ StartsWith(attributes_map[k].description, s_InferredFromGetter))
            => \E m \in 1..Len(ia_methods) :
                  /\ MatchesAccessor(ia_methods[m].name, <<"g","e","t">>)
                  /\ LowerFirst(AccessorGroup(ia_methods[m].name, <<"g","e","t">>))
                        = attributes_map[k].name
                  /\ ~VoidOrAbsent(ia_methods[m].return_type)
                  /\ attributes_map[k].type = <<ia_methods[m].return_type>>

\* the declared attribute of the name: the last one of the list
LastDeclared(n) ==
    ia_declared[CHOOSE k \in 1..Len(ia_declared) :
                    /\ ia_declared[k].name = n
                    /\ \A j \in (k+1)..Len(ia_declared) : ia_declared[j].name # n]

\* C18: the attribute list never has two entries of one name; an attribute
\* that is declared and also inferred from get<X>, is<X> or has<X> occurs
\* once, with the declared description and type, and inference only fills
\* the type a declared attribute lacks.
C18_DeclaredTakesPrecedence ==
    xa_k = 0 =>
        /\ \A i, j \in 1..Len(attributes_map) :
              attributes_map[i].name = attributes_map[j].name => i = j
        /\ \A d \in 1..Len(ia_declared) :
              ia_declared[d].name # <<>> =>
                 \E k \in 1..Len(attributes_map) :
                    LET decl == LastDeclared(ia_declared[d].name)
                        a    == attributes_map[k]
                    IN /\ a.name = decl.name
                       /\ a.description = decl.description
                       /\ a.inferred = decl.inferred
                       /\ IF decl.type # <<>> THEN a.type = decl.type
                          ELSE \/ a.type = <<>>
                               \/ \E m \in 1..Len(ia_methods) :
                                     /\ MatchesAccessor(ia_methods[m].name, <<"g","e","t">>)
                                     /\ LowerFirst(AccessorGroup(ia_methods[m].name,
                                                                 <<"g","e","t">>)) = a.name
                                     /\ a.type = <<ia_methods[m].return_type>>

\* a typed declared attribute met a getter of its name with another type
C18_Witness ==
    /\ xa_k = 0
    /\ \E d \in 1..Len(ia_declared), m \in 1..Len(ia_methods) :
          /\ ia_declared[d].type = <<s_oaTerm>>
          /\ ia_methods[m].name = s_getName
          /\ ia_methods[m].return_type = s_oaString
    /\ \E k \in 1..Len(attributes_map) :
          attributes_map[k].name = s_name /\ attributes_map[k].type = <<s_oaTerm>>

(***************************************************************************)
(* Properties of the classification.                                       *)
(***************************************************************************)
\* the table positions whose keyword is a substring of the name
KeywordMatches(n) ==
    { p \in UNION { { <<i, j>> : j \in 1..Len(DOMAIN_CONCEPTS[i].concepts) } :
                    i \in 1..Len(DOMAIN_CONCEPTS) } :
        Contains(n, DOMAIN_CONCEPTS[p[1]].concepts[p[2]]) }

Earlier(p, q) == p[1] < q[1] \/ (p[1] = q[1] /\ p[2] < q[2])

\* C19: extract_domain_type(name) is the first (domain, concept), in table
\* order, whose keyword is a substring of the symbol name, and
\* ("Other", "Unknown") exactly when no keyword is a substring of the name.
C19_FirstKeywordOfName ==
    \A n \in DOMAIN yaml_files :
        n \in DOMAIN domain_nodes =>
            IF KeywordMatches(n) = {}
            THEN /\ domain_nodes[n].domain = "Other"
                 /\ domain_nodes[n].concept = <<"U","n","k","n","o","w","n">>
            ELSE \E p \in KeywordMatches(n) :
                    /\ \A q \in KeywordMatches(n) : ~Earlier(q, p)
                    /\ domain_nodes[n].domain = DOMAIN_CONCEPTS[p[1]].domain
                    /\ domain_nodes[n].concept = DOMAIN_CONCEPTS[p[1]].concepts[p[2]]

\* the symbols that are nodes and stand in the inheritance list of n
ParentsOf(n) ==
    { yaml_files[n].inheritance[k] : k \in 1..Len(yaml_files[n].inheritance) }
        \cap DOMAIN yaml_files

\* the ancestors of n at distance d
RECURSIVE AncestorsAt(_, _)
AncestorsAt(n, d) ==
    IF d = 0 THEN {n} ELSE UNION { ParentsOf(m) : m \in AncestorsAt(n, d - 1) }

ClassifiedByName(n) == extract_domain_type(n).domain # "Other"

\* C20: after the construction, a symbol whose own name matches no keyword
\* and that has a classified ancestor carries the (domain, concept) of a
\* nearest classified ancestor, not ("Other", "Unknown").
C20_InheritsClassification ==
    dg_pc = "done" =>
        \A n \in DOMAIN yaml_files :
            \A d \in 1..Cardinality(DOMAIN yaml_files) :
                (/\ ~ClassifiedByName(n)
                 /\ \E a \in AncestorsAt(n, d) : ClassifiedByName(a)
                 /\ \A e \in 1..(d-1) : \A a \in AncestorsAt(n, e) : ~ClassifiedByName(a))
                => \E a \in AncestorsAt(n, d) :
                      /\ ClassifiedByName(a)
                      /\ domain_nodes[n].domain = extract_domain_type(a).domain
                      /\ domain_nodes[n].concept = extract_domain_type(a).concept

\* every class file has a node, and every node a domain and a concept
AllNodesClassified ==
    /\ DOMAIN domain_nodes = DOMAIN yaml_files
    /\ \A n \in DOMAIN domain_nodes :
          domain_nodes[n].domain # "" /\ domain_nodes[n].concept # <<>>

\* C21: the classification with its inheritance pass terminates for every
\* inheritance relation, a cyclic one included, and at the end every node
\* has a non-null (domain, concept).
C21_TerminatesAllClassified == <>(dg_pc = "done" /\ AllNodesClassified)

\* the construction has returned for two classes that inherit from each other
C21_Witness ==
    /\ dg_pc = "done"
    /\ \E a, b \in DOMAIN yaml_files :
          /\ a # b
          /\ b \in ParentsOf(a)
          /\ a \in ParentsOf(b)
          /\ <<a, b>> \in domain_links
          /\ <<b, a>> \in domain_links
    /\ AllNodesClassified

(***************************************************************************)
(* Properties of the graph of build_enhanced_domain_ontology.              *)
(***************************************************************************)
\* the nodes of the DiGraph: those added by add_node, and the endpoints of
\* every edge, which add_edge adds when they are missing
GraphNodes ==
    (DOMAIN nodes) \cup UNION { {k[1], k[2]} : k \in DOMAIN graph.edges }

\* the relationship statements of the loaded symbols that name a symbol
\* outside the loaded ones
DanglingStatements ==
    { r \in UNION { { crossref_data[n].relationships[i] :
                        i \in 1..Len(crossref_data[n].relationships) } :
                    n \in DOMAIN crossref_data } :
        r.source \notin DOMAIN crossref_data \/ r.target \notin DOMAIN crossref_data }

\* C22: in the returned graph every edge, declared or inferred, has its
\* source and its target among the nodes built from the Merged Symbols, and
\* a statement naming a symbol that is not a node has created no node.
C22_EndpointsAreNodes ==
    b_pc = "done" =>
        /\ \A k \in DOMAIN graph.edges :
              k[1] \in DOMAIN crossref_data /\ k[2] \in DOMAIN crossref_data
        /\ GraphNodes = DOMAIN crossref_data

\* the graph is returned with an edge, for symbols one of whose statements
\* names a symbol that is not loaded
C22_Witness ==
    /\ b_pc = "done"
    /\ DanglingStatements # {}
    /\ DOMAIN graph.edges # {}
    /\ GraphNodes = DOMAIN crossref_data

\* the endpoints a statement or a class getter of the visited class names
UmlEndpoints ==
    LET rel == crossref_data[b_order[b_c]].relationships[b_r]
    IN {rel.source, rel.target}

GetterEndpoints ==
    LET method == crossref_data[b_order[b_c]].methods[b_m]
    IN IF IsClassGetter(method) THEN {b_order[b_c], TargetClass(method.return_type)} ELSE {}

\* a step of the second pass finds the nodes complete, and its endpoint
\* test gives what the set of loaded symbols alone gives
C23_Step ==
    /\ graph'.edges # graph.edges => DOMAIN nodes = DOMAIN crossref_data
    /\ (b_pc = "rels" /\ b_r' = b_r + 1) =>
          (UmlEndpoints \subseteq DOMAIN nodes <=> UmlEndpoints \subseteq DOMAIN crossref_data)
    /\ (b_pc = "methods" /\ b_m' = b_m + 1) =>
          (GetterEndpoints \subseteq DOMAIN nodes
              <=> GetterEndpoints \subseteq DOMAIN crossref_data)

\* C23: no edge, declared or inferred, is added before every Merged Symbol
\* is a node, so whether a statement passes the endpoint test does not
\* depend on the order in which the symbols are visited.
C23_EdgesAfterAllNodes == [][C23_Step]_vars

\* the graph holds a declared edge stated by the class visited first, whose
\* other endpoint is the class visited second
C23_Witness ==
    /\ b_pc \in {"rels", "methods", "summary", "done"}
    /\ Len(b_order) = 2
    /\ \E i \in 1..Len(crossref_data[b_order[1]].relationships) :
          LET rel == crossref_data[b_order[1]].relationships[i]
          IN /\ b_order[2] \in {rel.source, rel.target}
             /\ b_order[1] \in {rel.source, rel.target}
             /\ <<rel.source, rel.target>> \in DOMAIN graph.edges
             /\ graph.edges[<<rel.source, rel.target>>].source = "uml"
             /\ b_c = 1

\* the edges of the returned graph are those of the second pass in the
\* order the symbols were visited in
C24_BuildIsSecondPass ==
    b_pc = "done" => graph.edges = second_pass(EmptyGraph, crossref_data, b_order, 1).edges

\* C24: two builds over the same Merged Symbols and declared relationships
\* give the same edges with the same types, members and provenance, in
\* whatever order the symbols are loaded and visited.
C24_SameEdgesInEveryOrder ==
    b_pc = "done" =>
        \A order \in Orders(DOMAIN crossref_data) :
            second_pass(EmptyGraph, crossref_data, order, 1).edges = graph.edges

EdgesOfType(t) == { k \in DOMAIN graph.edges : graph.edges[k].type = t }

EdgeTypes == { graph.edges[k].type : k \in DOMAIN graph.edges }

\* C30: the returned counts agree with the returned graph: the sum of
\* relationship_counts and uml_only + api_inferred both equal the number of
\* edges, and the count of each type equals the number of edges of that type.
C30_CountsAgreeWithGraph ==
    b_pc = "done" =>
        /\ SumCounts(graph.relationship_counts) = Cardinality(DOMAIN graph.edges)
        /\ graph.source_counts.uml_only + graph.source_counts.api_inferred
              = Cardinality(DOMAIN graph.edges)
        /\ \A t \in (DOMAIN graph.relationship_counts) \cup EdgeTypes :
              /\ t \in DOMAIN graph.relationship_counts
              /\ graph.relationship_counts[t] = Cardinality(EdgesOfType(t))

\* the counts agree with each other
C30_TotalsAgree ==
    b_pc = "done" =>
        /\ SumCounts(graph.relationship_counts)
              = graph.source_counts.uml_only + graph.source_counts.api_inferred
        /\ graph.source_counts.crossref = SumCounts(graph.relationship_counts)
        /\ SumCounts(graph.relationship_counts) >= Cardinality(DOMAIN graph.edges)

(***************************************************************************)
(* Properties of clean_description.                                        *)
(***************************************************************************)
\* C25: clean_description is idempotent:
\* clean_description(clean_description(x)) = clean_description(x) for every
\* text x.
C25_Idempotent == cd_pc = "twice" => cd_twice = cd_once

\* the second application never lengthens the text
C25_SecondNeverLonger == cd_pc = "twice" => Len(cd_twice) <= Len(cd_once)

(***************************************************************************)
(* Properties of ensure_prerequisites.                                     *)
(***************************************************************************)
\* the top-level call has returned, and what it returned
DepsReturned == dp_stack = <<>> /\ dp_ret # <<>>
DepsResult == dp_ret[1]

DirectPrerequisites(key) ==
    { Prerequisites(dp_table, key)[i] : i \in 1..Len(Prerequisites(dp_table, key)) }

AllPrerequisitesPresent(key) ==
    \A p \in DirectPrerequisites(key) : check_command_output(dp_files, p)

\* C26: ensure_prerequisites returns True only if the output files of every
\* direct prerequisite of the command exist when it returns, for every
\* initial combination of existing and missing files.
C26_TrueOnlyIfPrerequisitesPresent ==
    (DepsReturned /\ DepsResult) => AllPrerequisitesPresent(dp_top)

\* what a result of True does give: the command's own output files exist,
\* or those of every direct prerequisite do
C26_TrueOnlyIfOwnOutputOrPrerequisites ==
    (DepsReturned /\ DepsResult) =>
        \/ check_command_output(dp_files, dp_top)
        \/ AllPrerequisitesPresent(dp_top)

NoCommandRunTwice == \A i, j \in 1..Len(dp_runs) : dp_runs[i] = dp_runs[j] => i = j

\* C27: ensure_prerequisites terminates for every dependency table, one
\* with a cycle included; a circular dependency makes it return False, and
\* no command is executed more than once in one top-level call.
C27_TerminatesOnCycles ==
    /\ <>DepsReturned
    /\ [](NoCommandRunTwice)
    /\ []((DepsReturned /\ dp_circular) => ~DepsResult)

\* the call on the cyclic table has come back to a command of the visit
\* history and has returned False
C27_Witness ==
    /\ dp_table = CyclicDependencies
    /\ DepsReturned
    /\ dp_circular
    /\ ~DepsResult
    /\ dp_runs = <<>>
    /\ k_process_html \in visit_history

\* C28: on the shipped table ensure_prerequisites never reports a circular
\* dependency, for any command and any initial set of existing files.
C28_NoFalseCycle == dp_table = COMMAND_DEPENDENCIES => ~dp_circular

\* crossref enhance with nothing present: process html is run for process
\* build, found present for crossref run, and the call returns True
C28_Witness ==
    /\ dp_table = COMMAND_DEPENDENCIES
    /\ dp_top = k_crossref_enhance
    /\ DepsReturned
    /\ DepsResult
    /\ dp_runs = <<k_process_html, k_process_build, k_process_domain, k_uml_diagram,
                   k_uml_imagemap, k_crossref_run>>
    /\ ~dp_circular

\* a step that executes a command, and a step after a failed run
C29_Step ==
    /\ dp_runs' # dp_runs =>
          LET ran == dp_runs'[Len(dp_runs')]
          IN /\ ~check_command_output(dp_files, ran)
             /\ AllPrerequisitesPresent(ran)
             /\ ~dp_failed
    /\ dp_failed' => (dp_stack' = <<>> \/ dp_ret' = <<FALSE>>)

\* C29: a command is executed only when its own output files are missing
\* and those of each of its direct prerequisites exist; once a run has
\* failed no further command is executed and the result is False.
C29_RunsInDependencyOrder == [][C29_Step]_vars /\ []((DepsReturned /\ dp_failed) => ~DepsResult)

\* process build has been run right after its prerequisite process html
C29_Witness ==
    /\ Len(dp_runs) >= 2
    /\ dp_runs[1] = k_process_html
    /\ dp_runs[2] = k_process_build
    /\ ~dp_failed
    /\ check_command_output(dp_files, k_process_build)

=============================================================================
